---- MODULE Spec2Model ----
(***************************************************************************)
(* Model of the clustered crawl scheduler of src/src/crawler/index.ts:     *)
(* groupUrlsByClusters / mergeSmallClusters (the partitioner),             *)
(* getClusterSpecificDelay, crawlWebsites / crawlWithClustering (the       *)
(* scheduler) and crawlWebsite (the page fetcher).                         *)
(*                                                                         *)
(* Strings that the code takes apart (URLs, hostnames, cluster keys) are   *)
(* modelled by their structure: a hostname and a cluster key are the       *)
(* sequence of their dot-separated labels, so "a.com" is <<"a", "com">>    *)
(* and the key "merged-small-clusters" is <<"merged-small-clusters">>.     *)
(* Two keys are the same JavaScript string iff the sequences are equal.    *)
(***************************************************************************)
EXTENDS Integers, Sequences, FiniteSets, TLC

VARIABLES
  searchResults,  \* the ranked input list (the url of each SearchResult)
  options,        \* the options of the crawl: depth, concurrency, verbose,
                  \* and the clusterBy / maxClusters the caller supplied
  clusterConfig,  \* ClusterConfig: maxClusters, clusterBy, customClusterFn
  clusters,       \* what groupUrlsByClusters gave: [called, threw, obj]
  mainPc,         \* where crawlWebsites is: "idle", "awaiting", "returned"
  returned,       \* the list crawlWebsites resolved with
  tasks,          \* the cluster tasks (the async callbacks of clusterPromises)
  apiKey,         \* whether OPENROUTER_CONFIG.apiKey is a non-empty string
  delay,          \* one call of getClusterSpecificDelay: [called, key, ms]
  fetch,          \* one invocation of crawlWebsite, stage by stage
  manager,        \* a McpClientManager: its clients map, the server processes
                  \* it spawned and the calls in progress on it
  server          \* a BrowserMcpServer: this.browser, the browsers it
                  \* launched and the tool calls in progress

vars == <<searchResults, options, clusterConfig, clusters, mainPc, returned, tasks, apiKey, delay, fetch,
          manager, server>>

(***************************************************************************)
(* Bounds of the model                                                     *)
(***************************************************************************)
\* longest input list of search results explored by the partitioner runs
MaxUrls == 4

(***************************************************************************)
(* URLs and `new URL(url).hostname`                                        *)
(***************************************************************************)
\* the URL strings the inputs are drawn from
Urls ==
  { "http://a.com/", "http://b.com/", "http://en.wikipedia.org/",
    "not a url", "http://merged-small-clusters/", "http://10.0.0.1/",
    "http://constructor/" }

\* new URL(url) throws a TypeError for a string that is no absolute URL
UrlParses(url) == url # "not a url"

\* new URL(url).hostname, as the sequence of its labels
Hostname(url) ==
  CASE url = "http://a.com/" -> <<"a", "com">>
    [] url = "http://b.com/" -> <<"b", "com">>
    [] url = "http://en.wikipedia.org/" -> <<"en", "wikipedia", "org">>
    [] url = "http://merged-small-clusters/" -> <<"merged-small-clusters">>
    [] url = "http://10.0.0.1/" -> <<"10", "0", "0", "1">>
    [] url = "http://constructor/" -> <<"constructor">>

(***************************************************************************)
(* JavaScript helpers                                                      *)
(***************************************************************************)
\* a relative index of Array.prototype.slice, clamped into 0..len
RelativeIndex(k, len) ==
  IF k < 0 THEN (IF len + k < 0 THEN 0 ELSE len + k)
  ELSE IF k > len THEN len ELSE k

\* seq.slice(start, end) with 0-based, possibly negative, indices
JsSlice(seq, start, end) ==
  LET from == RelativeIndex(start, Len(seq))
      to == RelativeIndex(end, Len(seq))
  IN IF to <= from THEN <<>> ELSE SubSeq(seq, from + 1, to)

\* seq.slice(start)
JsSliceFrom(seq, start) == JsSlice(seq, start, Len(seq))

\* the labels that are canonical array indices ("integer-like" property keys)
\* among the labels of the modelled hostnames, with their numeric value
IndexLabels == [x \in {"0", "1", "10"} |->
  CASE x = "0" -> 0 [] x = "1" -> 1 [] x = "10" -> 10]

IsArrayIndex(key) == Len(key) = 1 /\ key[1] \in DOMAIN IndexLabels

\* property names every object literal inherits from Object.prototype that a
\* (lower-case) hostname can spell
PrototypeKeys == { <<"constructor">>, <<"__proto__">> }

\* An object literal used as Record<string, string[]>: the own properties
\* in creation order, each [key, urls].
HasOwn(obj, key) == \E n \in 1..Len(obj) : obj[n].key = key

IndexOfKey(obj, key) == CHOOSE n \in 1..Len(obj) : obj[n].key = key

\* obj[key] = urls: overwrites an own property in place, else creates it last
SetProperty(obj, key, urls) ==
  IF HasOwn(obj, key)
  THEN [obj EXCEPT ![IndexOfKey(obj, key)].urls = urls]
  ELSE Append(obj, [key |-> key, urls |-> urls])

RECURSIVE InsertByIndex(_, _)
\* inserts an integer-keyed entry into a list sorted by ascending index
InsertByIndex(sorted, e) ==
  IF sorted = <<>> THEN <<e>>
  ELSE IF IndexLabels[e.key[1]] < IndexLabels[Head(sorted).key[1]]
       THEN <<e>> \o sorted
       ELSE <<Head(sorted)>> \o InsertByIndex(Tail(sorted), e)

RECURSIVE IndexEntries(_)
IndexEntries(obj) ==
  IF obj = <<>> THEN <<>>
  ELSE IF IsArrayIndex(Head(obj).key)
       THEN InsertByIndex(IndexEntries(Tail(obj)), Head(obj))
       ELSE IndexEntries(Tail(obj))

\* Object.entries(obj): integer-like keys in ascending numeric order first,
\* then the other keys in creation order
ObjectEntries(obj) ==
  IndexEntries(obj) \o SelectSeq(obj, LAMBDA e : ~IsArrayIndex(e.key))

(***************************************************************************)
(* ClusterPartitioner: groupUrlsByClusters and mergeSmallClusters          *)
(***************************************************************************)
\* the bucket names the partitioner itself introduces
InvalidUrlsKey == <<"invalid-urls">>
MergedKey == <<"merged-small-clusters">>
DefaultKey == <<"default">>

\* the caller-supplied clusterConfig.customClusterFn values explored:
\* none, or a function that keys a URL by the first label of its hostname
CustomFnNames == {"undefined", "firstLabel"}

CustomClusterFn(fn, url) == <<Hostname(url)[1]>>

\* the key groupUrlsByClusters derives for one URL (the body of its try/catch)
ClusterNameOf(url, config) ==
  IF ~UrlParses(url) THEN InvalidUrlsKey
  ELSE CASE config.clusterBy = "domain" -> Hostname(url)
         [] config.clusterBy = "tld" ->
              LET domainParts == Hostname(url)
              IN IF Len(domainParts) > 1
                 THEN <<domainParts[Len(domainParts)]>>
                 ELSE Hostname(url)
         [] config.clusterBy = "custom" ->
              IF config.customClusterFn # "undefined"
              THEN CustomClusterFn(config.customClusterFn, url)
              ELSE DefaultKey
         [] OTHER -> DefaultKey

\* One iteration of the forEach of groupUrlsByClusters on the accumulator
\* [threw, obj].  clusters[clusterName] of an inherited property is truthy and
\* is no array, so the push on it throws a TypeError that leaves the function.
AddUrlToCluster(acc, url, config) ==
  LET clusterName == ClusterNameOf(url, config)
  IN IF acc.threw THEN acc
     ELSE IF HasOwn(acc.obj, clusterName)
     THEN [acc EXCEPT !.obj[IndexOfKey(acc.obj, clusterName)].urls =
                          Append(@, url)]
     ELSE IF clusterName \in PrototypeKeys
     THEN [acc EXCEPT !.threw = TRUE]
     ELSE [acc EXCEPT !.obj = Append(@, [key |-> clusterName, urls |-> <<url>>])]

RECURSIVE RawClusters(_, _, _)
\* the forEach loop: the clusters before any merging
RawClusters(acc, results, config) ==
  IF results = <<>> THEN acc
  ELSE RawClusters(AddUrlToCluster(acc, Head(results), config),
                   Tail(results), config)

RECURSIVE InsertBySize(_, _)
\* inserts e behind every entry that is at least as large (stable, descending)
InsertBySize(sorted, e) ==
  IF sorted = <<>> THEN <<e>>
  ELSE IF Len(Head(sorted).urls) >= Len(e.urls)
       THEN <<Head(sorted)>> \o InsertBySize(Tail(sorted), e)
       ELSE <<e>> \o sorted

RECURSIVE SortBySizeDesc(_, _)
\* entries.sort((a, b) => b[1].length - a[1].length), a stable sort
SortBySizeDesc(sorted, entries) ==
  IF entries = <<>> THEN sorted
  ELSE SortBySizeDesc(InsertBySize(sorted, Head(entries)), Tail(entries))

RECURSIVE AssignAll(_, _)
\* largestClusters.forEach(([name, urls]) => result[name] = urls)
AssignAll(result, entries) ==
  IF entries = <<>> THEN result
  ELSE AssignAll(SetProperty(result, Head(entries).key, Head(entries).urls),
                 Tail(entries))

RECURSIVE FlatUrls(_)
\* entries.flatMap(([_, urls]) => urls)
FlatUrls(entries) ==
  IF entries = <<>> THEN <<>>
  ELSE Head(entries).urls \o FlatUrls(Tail(entries))

\* mergeSmallClusters with the kept slice one too long (maxClusters instead
\* of maxClusters - 1)
mergeSmallClusters_keepMax(raw, maxClusters) ==
  IF Len(raw) <= maxClusters THEN raw
  ELSE LET sortedClusters == SortBySizeDesc(<<>>, ObjectEntries(raw))
           kept == AssignAll(<<>>, JsSlice(sortedClusters, 0, maxClusters))
           mergedUrls == FlatUrls(JsSliceFrom(sortedClusters, maxClusters))
       IN IF Len(mergedUrls) > 0
          THEN SetProperty(kept, MergedKey, mergedUrls)
          ELSE kept

mergeSmallClusters(raw, maxClusters) ==
  IF Len(raw) <= maxClusters THEN raw
  ELSE LET sortedClusters == SortBySizeDesc(<<>>, ObjectEntries(raw))
           largestClusters == JsSlice(sortedClusters, 0, maxClusters - 1)
           smallClusters == JsSliceFrom(sortedClusters, maxClusters - 1)
           kept == AssignAll(<<>>, largestClusters)
           mergedUrls == FlatUrls(smallClusters)
       IN IF Len(mergedUrls) > 0
          THEN SetProperty(kept, MergedKey, mergedUrls)
          ELSE kept

\* groupUrlsByClusters that runs the merging steps whatever the cluster count
groupUrlsByClusters_alwaysMerge(results, config) ==
  LET grouped == RawClusters([threw |-> FALSE, obj |-> <<>>], results,
                         config)
      sortedClusters == SortBySizeDesc(<<>>, ObjectEntries(grouped.obj))
      kept == AssignAll(<<>>, JsSlice(sortedClusters, 0, config.maxClusters - 1))
      mergedUrls == FlatUrls(JsSliceFrom(sortedClusters, config.maxClusters - 1))
  IN IF grouped.threw THEN grouped
     ELSE [grouped EXCEPT !.obj = IF Len(mergedUrls) > 0
                                  THEN SetProperty(kept, MergedKey, mergedUrls)
                                  ELSE kept]

\* groupUrlsByClusters: [threw, obj]; obj is the returned Record when the
\* call returns
groupUrlsByClusters(results, config) ==
  LET grouped == RawClusters([threw |-> FALSE, obj |-> <<>>], results,
                         config)
  IN IF grouped.threw THEN grouped
     ELSE IF Len(grouped.obj) > config.maxClusters
     THEN [grouped EXCEPT !.obj = mergeSmallClusters(grouped.obj, config.maxClusters)]
     ELSE grouped

(***************************************************************************)
(* Inputs                                                                  *)
(***************************************************************************)
RECURSIVE SeqsUpTo(_, _)
\* the sequences over S of length at most n
SeqsUpTo(S, n) ==
  IF n = 0 THEN {<<>>}
  ELSE LET shorter == SeqsUpTo(S, n - 1)
       IN shorter \cup {Append(q, x) : q \in {r \in shorter : Len(r) = n - 1}, x \in S}

\* the maxClusters values explored (the code sets no lower limit on it)
MaxClustersValues == {-1, 0, 1, 2, 3}

\* the ClusterConfig values explored by the partitioner runs
ClusterConfigs ==
  { [enabled |-> TRUE, maxClusters |-> m, clusterBy |-> by, customClusterFn |-> fn] :
      m \in MaxClustersValues,
      by \in {"domain", "tld", "custom"},
      fn \in CustomFnNames } \
  { cfg \in [enabled : {TRUE}, maxClusters : MaxClustersValues,
             clusterBy : {"domain", "tld"}, customClusterFn : {"firstLabel"}] : TRUE }

NoClusters == [called |-> FALSE, threw |-> FALSE, obj |-> <<>>]

NoOptions ==
  [depth |-> 0, concurrency |-> 0, verbose |-> FALSE, clusterBy |-> "domain",
   maxClusters |-> 0]

\* no call of getClusterSpecificDelay is being looked at
NoDelay == [called |-> FALSE, key |-> <<>>, ms |-> 0]

\* no invocation of crawlWebsite is being looked at stage by stage
NoFetch == [pc |-> "none"]

\* no McpClientManager and no BrowserMcpServer in the run
NoManager == [pc |-> "none"]
NoServer == [pc |-> "none"]

(***************************************************************************)
(* SpecPartition: groupUrlsByClusters applied to every bounded input       *)
(***************************************************************************)
InitPartition ==
  /\ searchResults \in SeqsUpTo(Urls, MaxUrls)
  /\ clusterConfig \in ClusterConfigs
  /\ options = NoOptions
  /\ clusters = NoClusters
  /\ mainPc = "idle"
  /\ returned = <<>>
  /\ tasks = <<>>
  /\ apiKey = FALSE
  /\ delay = NoDelay
  /\ fetch = NoFetch
  /\ manager = NoManager
  /\ server = NoServer

\* one call of groupUrlsByClusters(searchResults, clusterConfig)
GroupUrls ==
  /\ ~clusters.called
  /\ clusters' = [called |-> TRUE] @@ groupUrlsByClusters(searchResults, clusterConfig)
  /\ UNCHANGED <<searchResults, options, clusterConfig, mainPc, returned, tasks, apiKey, delay, fetch, manager, server>>

NextPartition == GroupUrls

SpecPartition == InitPartition /\ [][NextPartition]_vars

(***************************************************************************)
(* RateLimitPolicy: getClusterSpecificDelay                                *)
(***************************************************************************)
\* the strictDomains list
StrictDomains ==
  { "wikipedia.org", "amazon.com", "linkedin.com", "facebook.com", "twitter.com" }

RECURSIVE KeyString(_)
\* the JavaScript string of a key given by its labels: the labels joined by "."
KeyString(labels) ==
  IF Len(labels) = 1 THEN labels[1]
  ELSE labels[1] \o "." \o KeyString(Tail(labels))

\* String.prototype.includes with the search string found only at the start
Includes_prefixOnly(str, searchString) ==
  /\ Len(searchString) <= Len(str)
  /\ SubSeq(str, 1, Len(searchString)) = searchString

\* str.includes(searchString): searchString occurs at some offset of str
Includes(str, searchString) ==
  \E k \in 0..(Len(str) - Len(searchString)) :
    SubSeq(str, k + 1, k + Len(searchString)) = searchString

DefaultDelayMs == 2000
StrictDelayMs == 5000

\* getClusterSpecificDelay(clusterName) for the key with the given labels
getClusterSpecificDelay(clusterName) ==
  IF \E domain \in StrictDomains : Includes(KeyString(clusterName), domain)
  THEN StrictDelayMs
  ELSE DefaultDelayMs

\* the labels the keys of the rate-limit runs are made of, and the longest key
DelayLabels == {"en", "wikipedia", "notwikipedia", "org", "orgx", "amazon", "com", "a"}
MaxKeyLabels == 3

(***************************************************************************)
(* SpecDelay: getClusterSpecificDelay applied to every bounded key         *)
(***************************************************************************)
InitDelay ==
  /\ delay \in { [called |-> FALSE, key |-> k, ms |-> 0] :
                  k \in SeqsUpTo(DelayLabels, MaxKeyLabels) \ {<<>>} }
  /\ apiKey \in BOOLEAN
  /\ searchResults = <<>>
  /\ clusterConfig \in {cfg \in ClusterConfigs : cfg.maxClusters = 1}
  /\ options = NoOptions
  /\ clusters = NoClusters
  /\ mainPc = "idle"
  /\ returned = <<>>
  /\ tasks = <<>>
  /\ fetch = NoFetch
  /\ manager = NoManager
  /\ server = NoServer

\* one call of getClusterSpecificDelay(delay.key)
GetDelay ==
  /\ ~delay.called
  /\ delay' = [delay EXCEPT !.called = TRUE, !.ms = getClusterSpecificDelay(delay.key)]
  /\ UNCHANGED <<searchResults, options, clusterConfig, clusters, mainPc, returned,
                 tasks, apiKey, fetch, manager, server>>

NextDelay == GetDelay

SpecDelay == InitDelay /\ [][NextDelay]_vars

(***************************************************************************)
(* PageFetcher: crawlWebsite                                               *)
(***************************************************************************)
\* the awaited operations of crawlWebsite behind browser.newPage() that can
\* throw; "formatter" is the axios call (or the response check) inside
\* generateCleanMarkdown
PageOps ==
  { "setUserAgent", "goto", "waitForSelector", "title", "evaluate", "content",
    "screenshot", "formatter" }

\* generateCleanMarkdown(content, title, url): [threw, markdown]; it throws
\* when there is no API key (before any request) and when the request fails
generateCleanMarkdown(content, title, url, key, fails) ==
  IF ~key \/ "formatter" \in fails
  THEN [threw |-> TRUE, markdown |-> [kind |-> "none", title |-> title, content |-> content]]
  ELSE [threw |-> FALSE,
        markdown |-> [kind |-> "formatted", title |-> title, content |-> content]]

\* The part of crawlWebsite that runs on the page it obtained, for the set
\* `fails` of operations that throw: <<>> when the outer catch returns null,
\* else <<result>>.  A field is a tag telling which branch produced it.
crawlWebsiteOnPage(url, opts, key, fails) ==
  IF "setUserAgent" \in fails THEN <<>>
  ELSE IF "title" \in fails /\ ~UrlParses(url) THEN <<>>
  ELSE LET title == IF "title" \in fails THEN "hostname" ELSE "page-title"
           content == IF "evaluate" \in fails THEN "extract-failed" ELSE "page-text"
           html == IF "content" \in fails THEN "placeholder-html" ELSE "page-html"
           md == generateCleanMarkdown(content, title, url, key, fails)
       IN << [ url |-> url, title |-> title, content |-> content, html |-> html,
               markdown |-> IF md.threw
                            THEN [kind |-> "fallback", title |-> title, content |-> content]
                            ELSE md.markdown,
               cluster |-> <<>> ] >>

(***************************************************************************)
(* SpecFetch: one invocation of crawlWebsite, one awaited operation a step *)
(***************************************************************************)
\* the URLs of the stage-by-stage runs
FetchUrls == {"http://a.com/", "http://en.wikipedia.org/", "not a url"}

\* maxContentLength of generateCleanMarkdown, and the lengths of the text
\* page.evaluate returns in these runs
MaxContentLength == 8000
EllipsisLength == 3
PageTextLengths == {0, MaxContentLength, MaxContentLength + 1}

\* the length of the message that replaces the text when page.evaluate
\* throws, without the URL it quotes
ExtractFailedOverhead == 108

\* A text is [kind, len, ellipsis]: what it is made of, its length and
\* whether "..." was appended to it.
PageText(len) == [kind |-> "page-text", len |-> len, ellipsis |-> FALSE]

ExtractFailedText(url) ==
  [kind |-> "extract-failed", len |-> ExtractFailedOverhead + Len(url), ellipsis |-> FALSE]

\* content.length > maxContentLength
\*   ? content.substring(0, maxContentLength) + '...' : content
Truncated(content) ==
  IF content.len > MaxContentLength
  THEN [content EXCEPT !.len = MaxContentLength + EllipsisLength, !.ellipsis = TRUE]
  ELSE content

\* what axios.post sends to the formatter: the prompt's variable parts
FormatterRequest(content, title, url) ==
  [title |-> title, url |-> url, content |-> Truncated(content)]

\* the fallback built from the content as the formatter prompt carries it
FallbackMarkdown_truncated(title, content, url) ==
  <<"# ", title, "\n\n", Truncated(content), "\n\n[Source](", url, ")">>

\* `# ${title}\n\n${content}\n\n[Source](${url})`, as its parts
FallbackMarkdown(title, content, url) ==
  <<"# ", title, "\n\n", content, "\n\n[Source](", url, ")">>

\* response.data.choices[0].message.content.trim()
FormattedMarkdown == <<"formatter-reply">>

\* the outer catch of crawlWebsite re-throwing instead of returning null
OnFetchError_rethrow == [pc |-> "done", outcome |-> "thrown"]

\* the outer catch of crawlWebsite: the error is logged and null is returned
OnFetchError == [pc |-> "done", outcome |-> "null"]

\* crawlWebsite(url, options, browser) at its first await; requests are the
\* formatter requests sent, failed the operations that threw, result is
\* <<the CrawlResult>> once it is returned
NewFetch(url) ==
  [ pc |-> "robots", url |-> url, page |-> "none", title |-> "", content |-> PageText(0),
    html |-> "", requests |-> <<>>, failed |-> {}, outcome |-> "pending",
    result |-> <<>> ]

\* the fetch after an exception reached the outer catch at operation op; the
\* empty finally block leaves the page as it is
Caught(f, op) ==
  [f EXCEPT !.pc = OnFetchError.pc, !.outcome = OnFetchError.outcome,
            !.failed = @ \cup {op}]

InitFetch ==
  /\ fetch \in {NewFetch(url) : url \in FetchUrls}
  /\ manager = NoManager
  /\ server = NoServer
  /\ options \in [depth : {0}, concurrency : {0}, verbose : BOOLEAN,
                   clusterBy : {"domain"}, maxClusters : {0}]
  /\ apiKey \in BOOLEAN
  /\ searchResults = <<>>
  /\ clusterConfig = [enabled |-> FALSE, maxClusters |-> 0, clusterBy |-> "domain",
                      customClusterFn |-> "undefined"]
  /\ clusters = NoClusters
  /\ mainPc = "idle"
  /\ returned = <<>>
  /\ tasks = <<>>
  /\ delay = NoDelay

\* await isAllowedByRobotsTxt(url): it always resolves with true
RobotsAllowed ==
  /\ fetch.pc = "robots"
  /\ fetch' = [fetch EXCEPT !.pc = "newPage"]
  /\ UNCHANGED <<searchResults, options, clusterConfig, clusters, mainPc, returned,
                 tasks, apiKey, delay, manager, server>>

\* await browser.newPage()
NewPage ==
  /\ fetch.pc = "newPage"
  /\ \E ok \in BOOLEAN :
       fetch' = IF ok THEN [fetch EXCEPT !.pc = "setUserAgent", !.page = "open"]
                ELSE Caught(fetch, "newPage")
  /\ UNCHANGED <<searchResults, options, clusterConfig, clusters, mainPc, returned,
                 tasks, apiKey, delay, manager, server>>

\* await page.setUserAgent(...), outside the inner try blocks
SetUserAgent ==
  /\ fetch.pc = "setUserAgent"
  /\ \E ok \in BOOLEAN :
       fetch' = IF ok THEN [fetch EXCEPT !.pc = "goto"]
                ELSE Caught(fetch, "setUserAgent")
  /\ UNCHANGED <<searchResults, options, clusterConfig, clusters, mainPc, returned,
                 tasks, apiKey, delay, manager, server>>

\* await page.goto(url, ...) in its try/catch
Goto ==
  /\ fetch.pc = "goto"
  /\ \E ok \in BOOLEAN :
       fetch' = [fetch EXCEPT !.pc = "waitForSelector",
                              !.failed = IF ok THEN @ ELSE @ \cup {"goto"}]
  /\ UNCHANGED <<searchResults, options, clusterConfig, clusters, mainPc, returned,
                 tasks, apiKey, delay, manager, server>>

\* await page.waitForSelector('body', ...) in its try/catch
WaitForSelector ==
  /\ fetch.pc = "waitForSelector"
  /\ \E ok \in BOOLEAN :
       fetch' = [fetch EXCEPT !.pc = "title",
                              !.failed = IF ok THEN @ ELSE @ \cup {"waitForSelector"}]
  /\ UNCHANGED <<searchResults, options, clusterConfig, clusters, mainPc, returned,
                 tasks, apiKey, delay, manager, server>>

\* title = await page.title(); its catch block computes new URL(url).hostname,
\* which throws for a string that is no URL
Title ==
  /\ fetch.pc = "title"
  /\ \E ok \in BOOLEAN :
       fetch' = IF ok THEN [fetch EXCEPT !.pc = "evaluate", !.title = "page-title"]
                ELSE IF UrlParses(fetch.url)
                THEN [fetch EXCEPT !.pc = "evaluate", !.failed = @ \cup {"title"},
                                   !.title = KeyString(Hostname(fetch.url))]
                ELSE Caught(fetch, "title")
  /\ UNCHANGED <<searchResults, options, clusterConfig, clusters, mainPc, returned,
                 tasks, apiKey, delay, manager, server>>

\* content = await page.evaluate(...) in its try/catch
Evaluate ==
  /\ fetch.pc = "evaluate"
  /\ \/ \E len \in PageTextLengths :
          fetch' = [fetch EXCEPT !.pc = "content", !.content = PageText(len)]
     \/ fetch' = [fetch EXCEPT !.pc = "content", !.failed = @ \cup {"evaluate"},
                               !.content = ExtractFailedText(fetch.url)]
  /\ UNCHANGED <<searchResults, options, clusterConfig, clusters, mainPc, returned,
                 tasks, apiKey, delay, manager, server>>

\* html = await page.content() in its try/catch; then the screenshot if
\* options.verbose, else generateCleanMarkdown
Content ==
  /\ fetch.pc = "content"
  /\ \E ok \in BOOLEAN :
       fetch' = [fetch EXCEPT !.pc = IF options.verbose THEN "screenshot" ELSE "markdown",
                              !.html = IF ok THEN "page-html" ELSE "placeholder-html",
                              !.failed = IF ok THEN @ ELSE @ \cup {"content"}]
  /\ UNCHANGED <<searchResults, options, clusterConfig, clusters, mainPc, returned,
                 tasks, apiKey, delay, manager, server>>

\* await page.screenshot({path: `screenshot-${new URL(url).hostname}.png`})
\* in its try/catch; building the path already throws for a string that is
\* no URL
Screenshot ==
  /\ fetch.pc = "screenshot"
  /\ \E ok \in {b \in BOOLEAN : b => UrlParses(fetch.url)} :
       fetch' = [fetch EXCEPT !.pc = "markdown",
                              !.failed = IF ok THEN @ ELSE @ \cup {"screenshot"}]
  /\ UNCHANGED <<searchResults, options, clusterConfig, clusters, mainPc, returned,
                 tasks, apiKey, delay, manager, server>>

\* the CrawlResult crawlWebsite returns (its timestamp left out)
ResultOf(f, markdown) ==
  [url |-> f.url, title |-> f.title, content |-> f.content, html |-> f.html,
   markdown |-> markdown]

\* crawlWebsite returns its result with the given markdown
Returned(f, markdown) ==
  [f EXCEPT !.pc = "done", !.outcome = "result", !.result = <<ResultOf(f, markdown)>>]

\* generateCleanMarkdown up to its await: without an API key it throws before
\* any request and crawlWebsite falls back; with one, axios.post is sent
Markdown ==
  /\ fetch.pc = "markdown"
  /\ fetch' = IF ~apiKey
              THEN Returned([fetch EXCEPT !.failed = @ \cup {"formatter"}],
                            FallbackMarkdown(fetch.title, fetch.content, fetch.url))
              ELSE [fetch EXCEPT !.pc = "formatter",
                      !.requests = Append(@, FormatterRequest(fetch.content, fetch.title,
                                                              fetch.url))]
  /\ UNCHANGED <<searchResults, options, clusterConfig, clusters, mainPc, returned,
                 tasks, apiKey, delay, manager, server>>

\* what the awaited axios.post can do: resolve with a well-formed response,
\* reject, or resolve with a response of another shape
FormatterReplies == {"ok", "rejected", "unexpected"}

\* the request settles: the reply's content becomes the markdown, or
\* generateCleanMarkdown throws and crawlWebsite falls back
FormatterReply ==
  /\ fetch.pc = "formatter"
  /\ \E reply \in FormatterReplies :
       fetch' = IF reply = "ok"
                THEN Returned(fetch, FormattedMarkdown)
                ELSE Returned([fetch EXCEPT !.failed = @ \cup {"formatter"}],
                              FallbackMarkdown(fetch.title, fetch.content, fetch.url))
  /\ UNCHANGED <<searchResults, options, clusterConfig, clusters, mainPc, returned,
                 tasks, apiKey, delay, manager, server>>

NextFetch ==
  \/ RobotsAllowed
  \/ NewPage
  \/ SetUserAgent
  \/ Goto
  \/ WaitForSelector
  \/ Title
  \/ Evaluate
  \/ Content
  \/ Screenshot
  \/ Markdown
  \/ FormatterReply

SpecFetch == InitFetch /\ [][NextFetch]_vars

\* every awaited operation of crawlWebsite returns or throws
FairSpecFetch == SpecFetch /\ WF_vars(NextFetch)

(***************************************************************************)
(* CrawlScheduler: crawlWebsites and crawlWithClustering                   *)
(***************************************************************************)
\* the magnitude at which a JavaScript number stops changing when the loop
\* step is added to it (2^53 in the program; scaled down here)
NumberSaturation == 3

\* the loop index advancing by one URL instead of by one batch
AddStep_unit(i, step) == i + 1

\* i += concurrencyPerCluster on a double
AddStep(i, step) ==
  IF i + step < -NumberSaturation THEN -NumberSaturation ELSE i + step

DefaultConcurrency == 3
DefaultDepth == 3
MaxClustersCap == 4

\* options.concurrency || 3
concurrencyPerCluster == IF options.concurrency = 0 THEN DefaultConcurrency ELSE options.concurrency

\* the crawlWebsite calls batch.map starts on the given browser session: each
\* awaits browser.newPage();
\* rank records the position at which the call settles among its batch,
\* failed the operations of the call that threw
StartedFetches(batch, browser) ==
  [k \in 1..Len(batch) |->
     [url |-> batch[k], st |-> "newPage", page |-> "none", result |-> <<>>,
      rank |-> 0, failed |-> {}, session |-> browser]]

\* the longest count of batches and of sleeps the history counters of a task
\* record; a counter stays at this value once it has reached it
MaxBatchCount == 4

CountUp(n) == IF n >= MaxBatchCount THEN MaxBatchCount ELSE n + 1

\* the for loop of a cluster task at index i: the next batch is started, or
\* the loop ends and the finally block calls browser.close().  task.batch
\* holds the promises of the latest batch until the next one replaces them;
\* task.batches counts the batches started and task.started lists the URLs
\* whose fetch was started.
EnterLoop(task, i) ==
  IF i < Len(task.clusterUrls)
  THEN [task EXCEPT !.pc = "batch", !.i = i, !.batches = CountUp(@),
          !.started = @ \o JsSlice(task.clusterUrls, i, i + concurrencyPerCluster),
          !.batch = StartedFetches(JsSlice(task.clusterUrls, i, i + concurrencyPerCluster),
                                   task.session)]
  ELSE [task EXCEPT !.pc = "closing", !.i = i,
          !.browser = "closed", !.closeCalls = @ + 1]

\* the promises of a batch that have settled
SettledCount(batch) == Cardinality({k \in 1..Len(batch) : batch[k].st = "settled"})

\* Promise.race in place of Promise.all: the batch counts as done as soon as
\* one of its promises has settled
BatchSettled_race(task) ==
  task.batch = <<>> \/ \E k \in 1..Len(task.batch) : task.batch[k].st = "settled"

\* Promise.all(promises) of the current batch has resolved
BatchSettled(task) == \A k \in 1..Len(task.batch) : task.batch[k].st = "settled"

RECURSIVE ResultsFromRank(_, _)
\* the non-null results of a settled batch in the order the fetches settled,
\* from the r-th to settle onwards
ResultsFromRank(batch, r) ==
  IF r > Len(batch) THEN <<>>
  ELSE batch[CHOOSE k \in 1..Len(batch) : batch[k].rank = r].result
         \o ResultsFromRank(batch, r + 1)

\* the results pushed as the fetches complete instead of in batch order
NonNullResults_byRank(batch) == ResultsFromRank(batch, 1)

RECURSIVE NonNullResults_untilNull(_)
\* the results of a batch up to its first null: a failed fetch ends the batch
NonNullResults_untilNull(batch) ==
  IF batch = <<>> \/ Head(batch).result = <<>> THEN <<>>
  ELSE Head(batch).result \o NonNullResults_untilNull(Tail(batch))

RECURSIVE NonNullResults(_)
\* batchResults.forEach(result => { if (result) clusterResults.push(result) })
NonNullResults(batch) ==
  IF batch = <<>> THEN <<>>
  ELSE Head(batch).result \o NonNullResults(Tail(batch))

\* the task a cluster's async callback starts as: awaiting puppeteer.launch;
\* sleeps counts the rate-limit sleeps begun, timer is the delay (ms) of the
\* pending setTimeout, 0 when none is pending, session identifies the browser
\* the task launched (0 before the launch)
NewTask(entry) ==
  [ clusterName |-> entry.key, clusterUrls |-> entry.urls, pc |-> "launching",
    i |-> 0, browser |-> "none", closeCalls |-> 0, clusterResults |-> <<>>,
    batch |-> <<>>, batches |-> 0, sleeps |-> 0, timer |-> 0, session |-> 0,
    started |-> <<>> ]

Min(a, b) == IF a < b THEN a ELSE b

\* searchResults.slice(0, Math.min(searchResults.length, options.depth || 3))
limitedResults ==
  JsSlice(searchResults, 0,
          Min(Len(searchResults), IF options.depth = 0 THEN DefaultDepth ELSE options.depth))

\* the option values explored by the scheduler runs
ConcurrencyValues == {-1, 0, 1, 2}
DepthValues == {-1, 0, 2}
CpuCounts == {1, 2}

\* the URLs and the page-operation failures explored by the scheduler runs
CrawlUrls == {"http://a.com/", "http://b.com/", "not a url"}
MaxCrawlUrls == 3
PageFailureSets == { {}, {"setUserAgent"}, {"title", "evaluate", "formatter"} }

Init ==
  /\ searchResults \in SeqsUpTo(CrawlUrls, MaxCrawlUrls)
  /\ options \in [depth : DepthValues, concurrency : ConcurrencyValues, verbose : {FALSE},
                   clusterBy : {"domain"}, maxClusters : {0}]
  /\ apiKey \in BOOLEAN
  /\ clusterConfig = [enabled |-> FALSE, maxClusters |-> 0, clusterBy |-> "domain",
                      customClusterFn |-> "undefined"]
  /\ clusters = NoClusters
  /\ mainPc = "idle"
  /\ returned = <<>>
  /\ tasks = <<>>
  /\ delay = NoDelay
  /\ fetch = NoFetch
  /\ manager = NoManager
  /\ server = NoServer

\* crawlWebsites without its catch block: the rejection reaches the caller
OnCrawlError_rethrow == [pc |-> "rejected", list |-> <<>>]

\* the catch block of crawlWebsites: the error is logged and [] is returned
OnCrawlError == [pc |-> "returned", list |-> <<>>]

\* crawlWebsites up to the await in crawlWithClustering: the input is cut to
\* the depth, partitioned, and one task per cluster starts (each awaiting
\* puppeteer.launch); a throw of groupUrlsByClusters is caught and gives [].
CrawlWebsites ==
  /\ mainPc = "idle"
  /\ \E cpus \in CpuCounts :
       LET config == [enabled |-> TRUE, maxClusters |-> Min(cpus, MaxClustersCap),
                      clusterBy |-> "domain", customClusterFn |-> "undefined"]
       IN \E grouped \in {groupUrlsByClusters(limitedResults, config)} :
          \E entries \in {ObjectEntries(grouped.obj)} :
            /\ clusterConfig' = config
            /\ clusters' = [called |-> TRUE] @@ grouped
            /\ IF grouped.threw
               THEN /\ mainPc' = OnCrawlError.pc
                    /\ returned' = OnCrawlError.list
                    /\ tasks' = <<>>
               ELSE /\ mainPc' = "awaiting"
                    /\ returned' = <<>>
                    /\ tasks' = [c \in 1..Len(entries) |-> NewTask(entries[c])]
  /\ UNCHANGED <<searchResults, options, apiKey, delay, fetch, manager, server>>

\* one browser object handed to every cluster task
SessionOf_shared(c) == 1

\* the browser object the launch of the c-th cluster task resolves with:
\* every call of puppeteer.launch gives a browser of its own
SessionOf(c) == c

\* puppeteer.launch resolves: the task enters its try block and its loop
LaunchOk(c) ==
  /\ tasks[c].pc = "launching"
  /\ tasks' = [tasks EXCEPT ![c] =
       EnterLoop([@ EXCEPT !.browser = "open", !.session = SessionOf(c)], 0)]
  /\ UNCHANGED <<searchResults, options, clusterConfig, clusters, mainPc, returned, apiKey, delay, fetch, manager, server>>

\* puppeteer.launch rejects: the await is outside the try, the task rejects
LaunchFail(c) ==
  /\ tasks[c].pc = "launching"
  /\ tasks' = [tasks EXCEPT ![c].pc = "rejected"]
  /\ UNCHANGED <<searchResults, options, clusterConfig, clusters, mainPc, returned, apiKey, delay, fetch, manager, server>>

\* browser.newPage() resolves for fetch k of the current batch of task c
NewPageOk(c, k) ==
  /\ tasks[c].batch[k].st = "newPage"
  /\ tasks' = [tasks EXCEPT ![c].batch[k].st = "setUserAgent", ![c].batch[k].page = "open"]
  /\ UNCHANGED <<searchResults, options, clusterConfig, clusters, mainPc, returned, apiKey, delay, fetch, manager, server>>

\* browser.newPage() rejects: the outer catch of crawlWebsite returns null
NewPageFail(c, k) ==
  /\ tasks[c].batch[k].st = "newPage"
  /\ tasks' = [tasks EXCEPT ![c].batch[k].st = "settled", ![c].batch[k].result = <<>>,
                            ![c].batch[k].failed = {"newPage"},
                            ![c].batch[k].rank = SettledCount(tasks[c].batch) + 1]
  /\ UNCHANGED <<searchResults, options, clusterConfig, clusters, mainPc, returned, apiKey, delay, fetch, manager, server>>

\* the result handed on as crawlWebsite gave it, without a cluster
TagCluster_untagged(result, clusterName) == result

\* result.cluster = clusterName, when crawlWebsite gave a result
TagCluster(result, clusterName) ==
  IF result = <<>> THEN <<>> ELSE << [result[1] EXCEPT !.cluster = clusterName] >>

\* the operations crawlWebsite awaits on its page, in the order of the code
\* (page.screenshot is skipped: the scheduler runs have verbose off)
PageSteps ==
  <<"setUserAgent", "goto", "waitForSelector", "title", "evaluate", "content", "formatter">>

\* the position of an operation in PageSteps
OpIndex(op) == CHOOSE i \in 1..Len(PageSteps) : PageSteps[i] = op

\* the operations awaited before op
OpsBefore(op) == {PageSteps[i] : i \in 1..(OpIndex(op) - 1)}

\* the explored failure sets that agree with what fetch f did so far
ConsistentFailures(f) == {F \in PageFailureSets : F \cap OpsBefore(f.st) = f.failed}

\* whether the operation fetch f awaits may throw, or not, in these runs;
\* without an API key generateCleanMarkdown throws before any request
MayThrow(f, threw) ==
  IF f.st = "formatter" /\ ~apiKey THEN threw
  ELSE \E F \in ConsistentFailures(f) : (f.st \in F) = threw

\* an exception of op reaches the outer catch of crawlWebsite: setUserAgent
\* is outside every inner try, and the catch of page.title() throws when
\* new URL(url) does
ReachesOuterCatch(op, url) ==
  op = "setUserAgent" \/ (op = "title" /\ ~UrlParses(url))

\* The operation fetch k of task c awaits on its page settles; threw tells
\* whether it rejects.  The fetch goes on to its next await, or returns: null
\* from the outer catch, its result after the formatter.  These awaits touch
\* only the fetch's own page, and the empty finally block leaves the page
\* open (page.close() is commented out).
PageOpSettles(c, k, threw) ==
  LET f == tasks[c].batch[k]
      failed == IF threw THEN f.failed \cup {f.st} ELSE f.failed
  IN /\ \E i \in 1..Len(PageSteps) : PageSteps[i] = f.st
     /\ MayThrow(f, threw)
     /\ tasks' = [tasks EXCEPT ![c].batch[k] =
          IF f.st = "formatter" \/ (threw /\ ReachesOuterCatch(f.st, f.url))
          THEN [f EXCEPT !.st = "settled",
                         !.rank = SettledCount(tasks[c].batch) + 1,
                         !.failed = failed,
                         !.result = TagCluster(crawlWebsiteOnPage(f.url, options, apiKey, failed),
                                               tasks[c].clusterName)]
          ELSE [f EXCEPT !.st = PageSteps[OpIndex(f.st) + 1], !.failed = failed]]
     /\ UNCHANGED <<searchResults, options, clusterConfig, clusters, mainPc, returned, apiKey, delay, fetch, manager, server>>

\* the delay applied after every batch, the last one included
MoreBatches_always(task) == TRUE

\* if (i + concurrencyPerCluster < clusterUrls.length): a batch is still to come
MoreBatches(task) == task.i + concurrencyPerCluster < Len(task.clusterUrls)

\* await Promise.all(promises) resumes: the non-null results are pushed in
\* batch order; then the task sleeps, or goes round the loop
JoinBatch(c) ==
  /\ tasks[c].pc = "batch"
  /\ BatchSettled(tasks[c])
  /\ LET t == tasks[c]
         joined == [t EXCEPT !.clusterResults = @ \o NonNullResults(t.batch)]
     IN tasks' = [tasks EXCEPT ![c] =
          IF MoreBatches(t)
          THEN [joined EXCEPT !.pc = "sleeping", !.sleeps = CountUp(@),
                              !.timer = getClusterSpecificDelay(t.clusterName)]
          ELSE EnterLoop(joined, AddStep(t.i, concurrencyPerCluster))]
  /\ UNCHANGED <<searchResults, options, clusterConfig, clusters, mainPc, returned, apiKey, delay, fetch, manager, server>>

\* the setTimeout of getClusterSpecificDelay(clusterName) ms fires
Wake(c) ==
  /\ tasks[c].pc = "sleeping"
  /\ tasks' = [tasks EXCEPT ![c] =
       EnterLoop([@ EXCEPT !.timer = 0], AddStep(@.i, concurrencyPerCluster))]
  /\ UNCHANGED <<searchResults, options, clusterConfig, clusters, mainPc, returned, apiKey, delay, fetch, manager, server>>

\* browser.close() resolves: the task fulfils with clusterResults
CloseOk(c) ==
  /\ tasks[c].pc = "closing"
  /\ tasks' = [tasks EXCEPT ![c].pc = "fulfilled"]
  /\ UNCHANGED <<searchResults, options, clusterConfig, clusters, mainPc, returned, apiKey, delay, fetch, manager, server>>

\* browser.close() rejects inside finally: the task rejects
CloseFail(c) ==
  /\ tasks[c].pc = "closing"
  /\ tasks' = [tasks EXCEPT ![c].pc = "rejected"]
  /\ UNCHANGED <<searchResults, options, clusterConfig, clusters, mainPc, returned, apiKey, delay, fetch, manager, server>>

RECURSIVE FlatResults_lastFirst(_)
\* the per-cluster lists concatenated from the last cluster to the first
FlatResults_lastFirst(ts) ==
  IF ts = <<>> THEN <<>>
  ELSE FlatResults_lastFirst(Tail(ts)) \o Head(ts).clusterResults

RECURSIVE FlatResults(_)
\* clusterResults.flat()
FlatResults(ts) ==
  IF ts = <<>> THEN <<>> ELSE Head(ts).clusterResults \o FlatResults(Tail(ts))

\* Promise.all(clusterPromises) fulfils: crawlWebsites returns the flat list
ReturnResults ==
  /\ mainPc = "awaiting"
  /\ \A c \in 1..Len(tasks) : tasks[c].pc = "fulfilled"
  /\ mainPc' = "returned"
  /\ returned' = FlatResults(tasks)
  /\ UNCHANGED <<searchResults, options, clusterConfig, clusters, tasks, apiKey, delay, fetch, manager, server>>

\* Promise.all(clusterPromises) rejects with the first rejection: the catch
\* of crawlWebsites returns []; the other tasks keep running
ReturnEmptyOnError ==
  /\ mainPc = "awaiting"
  /\ \E c \in 1..Len(tasks) : tasks[c].pc = "rejected"
  /\ mainPc' = OnCrawlError.pc
  /\ returned' = OnCrawlError.list
  /\ UNCHANGED <<searchResults, options, clusterConfig, clusters, tasks, apiKey, delay, fetch, manager, server>>

Next ==
  \/ CrawlWebsites
  \/ \E c \in 1..Len(tasks) :
       \/ LaunchOk(c)
       \/ LaunchFail(c)
       \/ \E k \in 1..Len(tasks[c].batch) :
            \/ NewPageOk(c, k)
            \/ NewPageFail(c, k)
            \/ \E threw \in BOOLEAN : PageOpSettles(c, k, threw)
       \/ JoinBatch(c)
       \/ Wake(c)
       \/ CloseOk(c)
       \/ CloseFail(c)
  \/ ReturnResults
  \/ ReturnEmptyOnError

Spec == Init /\ [][Next]_vars

\* the steps of cluster task c
TaskStep(c) ==
  /\ c <= Len(tasks)
  /\ \/ LaunchOk(c)
     \/ LaunchFail(c)
     \/ \E k \in 1..Len(tasks[c].batch) :
          \/ NewPageOk(c, k)
          \/ NewPageFail(c, k)
          \/ \E threw \in BOOLEAN : PageOpSettles(c, k, threw)
     \/ JoinBatch(c)
     \/ Wake(c)
     \/ CloseOk(c)
     \/ CloseFail(c)

\* the runs explored for the properties about eventual outcomes: every list
\* of at most MaxFairUrls URLs, with the default depth
MaxFairUrls == 2

FairInit ==
  /\ Init
  /\ Len(searchResults) <= MaxFairUrls
  /\ options.depth = 0
  /\ apiKey

\* Once crawlWebsites has been called, every awaited browser, page and
\* formatter call returns or throws, every timer fires and every settled
\* promise resumes its awaiter: no task and no caller waits forever on a step
\* it can take.
FairSpec ==
  /\ FairInit
  /\ [][Next]_vars
  /\ WF_vars(ReturnResults)
  /\ WF_vars(ReturnEmptyOnError)
  /\ \A c \in 1..MaxClustersCap : WF_vars(TaskStep(c))

(***************************************************************************)
(* SpecOptions: the scheduler run under every supplied cluster option      *)
(***************************************************************************)
MaxOptionUrls == 2

\* the clusterBy and maxClusters values a caller supplies in these runs
SuppliedClusterBy == {"domain", "tld"}
SuppliedMaxClusters == {1, 2}

InitOptions ==
  /\ searchResults \in SeqsUpTo({"http://a.com/", "http://b.com/"}, MaxOptionUrls)
  /\ options \in [depth : {0}, concurrency : {0, 1}, verbose : {FALSE},
                   clusterBy : SuppliedClusterBy, maxClusters : SuppliedMaxClusters]
  /\ apiKey = TRUE
  /\ clusterConfig = [enabled |-> FALSE, maxClusters |-> 0, clusterBy |-> "domain",
                      customClusterFn |-> "undefined"]
  /\ clusters = NoClusters
  /\ mainPc = "idle"
  /\ returned = <<>>
  /\ tasks = <<>>
  /\ delay = NoDelay
  /\ fetch = NoFetch
  /\ manager = NoManager
  /\ server = NoServer

SpecOptions == InitOptions /\ [][Next]_vars

(***************************************************************************)
(* SpecThrottle: the scheduler run on inputs with a strict origin          *)
(***************************************************************************)
MaxThrottleUrls == 2

\* the URLs of these runs: one of a strict origin, one of another origin
ThrottleUrls == {"http://en.wikipedia.org/", "http://a.com/"}

InitThrottle ==
  /\ searchResults \in SeqsUpTo(ThrottleUrls, MaxThrottleUrls)
  /\ options \in [depth : {0}, concurrency : {0, 1}, verbose : {FALSE},
                   clusterBy : {"domain"}, maxClusters : {0}]
  /\ apiKey = TRUE
  /\ clusterConfig = [enabled |-> FALSE, maxClusters |-> 0, clusterBy |-> "domain",
                      customClusterFn |-> "undefined"]
  /\ clusters = NoClusters
  /\ mainPc = "idle"
  /\ returned = <<>>
  /\ tasks = <<>>
  /\ delay = NoDelay
  /\ fetch = NoFetch
  /\ manager = NoManager
  /\ server = NoServer

SpecThrottle == InitThrottle /\ [][Next]_vars

(***************************************************************************)
(* Properties of the partitioner                                           *)
(***************************************************************************)
RECURSIVE Count(_, _)
\* the number of occurrences of x in seq
Count(seq, x) ==
  IF seq = <<>> THEN 0
  ELSE (IF Head(seq) = x THEN 1 ELSE 0) + Count(Tail(seq), x)

\* the clusters before merging, for the current input
RawOfInput == RawClusters([threw |-> FALSE, obj |-> <<>>], searchResults, clusterConfig)

\* groupUrlsByClusters has returned (and not thrown)
Partitioned == clusters.called /\ ~clusters.threw

\* every URL occurs in the returned clusters as often as in the input
PartitionComplete ==
  \A u \in Urls : Count(FlatUrls(ObjectEntries(clusters.obj)), u) = Count(searchResults, u)

\* C1: for every input, every clusterBy mode and every maxClusters >= 1, the
\* clusters groupUrlsByClusters returns hold each input URL occurrence in
\* exactly one cluster, exactly once, whatever the keys are.
C1_PartitionCompleteness ==
  (Partitioned /\ clusterConfig.maxClusters >= 1) => PartitionComplete

\* C2 (as amended): for every input and every maxClusters >= 1, the number of
\* clusters groupUrlsByClusters returns is at most maxClusters.
C2_ClusterBound ==
  (Partitioned /\ clusterConfig.maxClusters >= 1)
    => Len(clusters.obj) <= clusterConfig.maxClusters

\* C2 witness: three raw clusters were merged down to maxClusters = 2
C2_Witness ==
  /\ Partitioned
  /\ clusterConfig.maxClusters = 2
  /\ Len(RawOfInput.obj) = 3
  /\ Len(clusters.obj) = 2
  /\ HasOwn(clusters.obj, MergedKey)

\* C2 as stated: the bound holds for every value of maxClusters
C2_ClusterBoundAnyMax ==
  Partitioned => Len(clusters.obj) <= clusterConfig.maxClusters

(***************************************************************************)
(* Properties of the scheduler                                             *)
(***************************************************************************)
\* the crawlWebsite invocations of a task that have started and not finished
InFlight(task) == Cardinality({k \in 1..Len(task.batch) : task.batch[k].st # "settled"})

\* the task's puppeteer.launch rejected
LaunchFailed(task) == task.pc = "rejected" /\ task.browser = "none"

AllTasksEnded == \A c \in 1..Len(tasks) : tasks[c].pc \in {"fulfilled", "rejected"}

\* C3: in every reachable state of a run, the number of crawlWebsite
\* invocations in flight within one cluster task is at most the configured
\* concurrency (options.concurrency, default 3).
C3_ConcurrencyBound ==
  \A c \in 1..Len(tasks) : InFlight(tasks[c]) <= concurrencyPerCluster

\* the results of the tasks that fulfilled, in task order
ResultsOfFulfilled == FlatResults(SelectSeq(tasks, LAMBDA t : t.pc = "fulfilled"))

\* C4: if puppeteer.launch fails for one cluster, the list crawlWebsites
\* returns holds no result of that cluster and every result the other
\* clusters produced, as if the failing cluster had been absent.
C4_LaunchFailureIsolated ==
  ( /\ mainPc = "returned"
    /\ AllTasksEnded
    /\ \A c \in 1..Len(tasks) : tasks[c].pc = "rejected" => LaunchFailed(tasks[c]) )
  => returned = ResultsOfFulfilled

RECURSIVE UrlsOf(_)
UrlsOf(results) ==
  IF results = <<>> THEN <<>> ELSE <<Head(results).url>> \o UrlsOf(Tail(results))

\* C5: whatever fails (browser launch, page operations, formatter calls,
\* browser close), crawlWebsites never rejects: when it settles it resolves
\* with a list holding at most one CrawlResult per crawled input occurrence.
C5_NeverRejects ==
  /\ mainPc \in {"idle", "awaiting", "returned"}
  /\ mainPc = "returned" =>
       \A u \in CrawlUrls : Count(UrlsOf(returned), u) <= Count(limitedResults, u)

\* C5 witness: a browser launch and a browser close have failed, and
\* crawlWebsites has resolved (with the empty list)
C5_Witness ==
  /\ mainPc = "returned"
  /\ returned = <<>>
  /\ \E c \in 1..Len(tasks) : LaunchFailed(tasks[c])
  /\ \E c \in 1..Len(tasks) : tasks[c].pc = "rejected" /\ tasks[c].closeCalls = 1

\* the results in a list that carry the given cluster tag
TaggedResults(results, clusterName) ==
  SelectSeq(results, LAMBDA r : r.cluster = clusterName)

\* C6: for every cluster whose browser session was created, the final list
\* holds exactly one CrawlResult for each URL of that cluster, whichever
\* page operations failed (stated for the runs in which every task fulfilled).
C6_OneResultPerUrl ==
  ( /\ mainPc = "returned"
    /\ Len(tasks) > 0
    /\ \A c \in 1..Len(tasks) : tasks[c].pc = "fulfilled" )
  => \A c \in 1..Len(tasks) :
       UrlsOf(TaggedResults(returned, tasks[c].clusterName)) = tasks[c].clusterUrls

\* C7: every page crawlWebsite obtained from browser.newPage() has been
\* closed by the time that invocation has returned.
C7_PageClosedOnReturn ==
  \A c \in 1..Len(tasks) : \A k \in 1..Len(tasks[c].batch) :
    tasks[c].batch[k].st = "settled" => tasks[c].batch[k].page # "open"

\* a step in which task c starts the fetches of a new batch
StartsBatch(c) ==
  /\ c <= Len(tasks) /\ c <= Len(tasks')
  /\ tasks'[c].pc = "batch"
  /\ tasks[c].pc # "batch" \/ tasks'[c].i # tasks[c].i

\* C8: within one cluster task, no fetch of batch N+1 starts before every
\* fetch of batch N has finished.
C8_BatchSequencing ==
  [][\A c \in 1..MaxClustersCap :
       StartsBatch(c) => \A k \in 1..Len(tasks[c].batch) : tasks[c].batch[k].st = "settled"]_vars

\* C8 witness: a task is fetching its second batch (its first one gave a result)
C8_Witness ==
  \E c \in 1..Len(tasks) :
    /\ tasks[c].pc = "batch"
    /\ tasks[c].i > 0
    /\ InFlight(tasks[c]) > 0
    /\ Len(tasks[c].clusterResults) > 0

\* C9: a cluster's browser session is closed only after every fetch of every
\* batch of the cluster has finished, and no crawlWebsite invocation is in
\* flight on a session that is not open.
C9_SessionOpenWhileUsed ==
  \A c \in 1..Len(tasks) :
    /\ InFlight(tasks[c]) > 0 => tasks[c].browser = "open"
    /\ tasks[c].browser = "closed" =>
         /\ InFlight(tasks[c]) = 0
         /\ ~(tasks[c].i < Len(tasks[c].clusterUrls))

\* C9 witness: a session has been closed after two batches were fetched on it
C9_Witness ==
  \E c \in 1..Len(tasks) :
    /\ tasks[c].browser = "closed"
    /\ Len(tasks[c].clusterUrls) >= 2
    /\ Len(tasks[c].batch) < Len(tasks[c].clusterUrls)
    /\ Len(tasks[c].clusterResults) = Len(tasks[c].clusterUrls)

\* C10: every browser session a cluster task created is eventually closed,
\* and browser.close() is called on it exactly once.
C10_SessionReleased ==
  /\ [](\A c \in 1..Len(tasks) : tasks[c].closeCalls <= 1)
  /\ \A c \in 1..MaxClustersCap :
       (c <= Len(tasks) /\ tasks[c].browser = "open")
         ~> (c <= Len(tasks) /\ tasks[c].browser = "closed" /\ tasks[c].closeCalls = 1)

\* C11: crawlWebsites completes only after every cluster task has completed;
\* in no reachable state has it returned its list while some cluster task is
\* still fetching or still holds an open browser session.
C11_JoinAll ==
  mainPc = "returned" =>
    \A c \in 1..Len(tasks) :
      /\ InFlight(tasks[c]) = 0
      /\ tasks[c].browser # "open"
      /\ tasks[c].pc \in {"fulfilled", "rejected"}

RECURSIVE IsSubseq(_, _)
\* sub can be obtained from seq by deleting elements
IsSubseq(sub, seq) ==
  IF sub = <<>> THEN TRUE
  ELSE IF seq = <<>> THEN FALSE
  ELSE IF Head(sub) = Head(seq) THEN IsSubseq(Tail(sub), Tail(seq))
  ELSE IsSubseq(sub, Tail(seq))

\* the fetches of a batch that gave a result, in batch (input) order
WithResult(batch) == SelectSeq(batch, LAMBDA f : f.result # <<>>)

\* C12: for every completion order of the fetches inside a batch, the results
\* of the batch appear in the batch's input URL order, so the results of a
\* cluster appear in the same relative order as the cluster's URL list.
C12_OrderPreserved ==
  \A c \in 1..Len(tasks) :
    LET t == tasks[c]
        got == WithResult(t.batch)
        n == Len(got)
        m == Len(t.clusterResults)
    IN /\ IsSubseq(UrlsOf(t.clusterResults), t.clusterUrls)
       /\ t.pc # "batch" =>
            /\ n <= m
            /\ \A j \in 1..n : t.clusterResults[m - n + j] = got[j].result[1]

\* C12 witness: a batch of two different URLs was joined whose second fetch
\* settled before its first, and the results are in URL order
C12_Witness ==
  \E c \in 1..Len(tasks) :
    LET t == tasks[c]
    IN /\ t.pc # "batch"
       /\ Len(t.batch) = 2
       /\ t.batch[1].url # t.batch[2].url
       /\ t.batch[2].rank = 1 /\ t.batch[1].rank = 2
       /\ UrlsOf(t.clusterResults) = <<t.batch[1].url, t.batch[2].url>>

\* the number of batches a cluster of n URLs is cut into at concurrency k >= 1
BatchesOf(n, k) == (n + k - 1) \div k

\* C13: a cluster task that runs B batches performs exactly B-1 rate-limit
\* sleeps, one after each batch except the last, each of duration
\* getClusterSpecificDelay(clusterKey); a cluster that fits in a single batch
\* never sleeps, and the next batch starts only after the sleep has elapsed.
C13_InterBatchDelays ==
  /\ [](\A c \in 1..Len(tasks) :
          LET t == tasks[c]
          IN t.batches < MaxBatchCount =>
               /\ t.pc = "sleeping" =>
                    /\ t.sleeps = t.batches
                    /\ t.timer = getClusterSpecificDelay(t.clusterName)
               /\ t.pc # "sleeping" => t.timer = 0
               /\ (t.pc # "sleeping" /\ t.batches >= 1) => t.sleeps = t.batches - 1
               /\ (t.pc \in {"closing", "fulfilled"} /\ concurrencyPerCluster >= 1) =>
                    t.batches = BatchesOf(Len(t.clusterUrls), concurrencyPerCluster)
               /\ concurrencyPerCluster >= Len(t.clusterUrls) => t.sleeps = 0)
  /\ [][\A c \in 1..MaxClustersCap :
          (StartsBatch(c) /\ tasks'[c].batches > 1) =>
            (tasks[c].pc = "sleeping" /\ tasks'[c].timer = 0)]_vars

\* C13 witness: a task has finished three batches with two sleeps between them
C13_Witness ==
  \E c \in 1..Len(tasks) :
    /\ tasks[c].pc = "fulfilled"
    /\ tasks[c].batches = 3
    /\ tasks[c].sleeps = 2
    /\ Len(tasks[c].clusterResults) = 3

(***************************************************************************)
(* Properties of the rate-limit policy                                     *)
(***************************************************************************)
\* the strict domains as label pairs, and which labels of DelayLabels end or
\* start with a label of a strict domain without being equal to it
StrictDomainLabels ==
  { <<"wikipedia", "org">>, <<"amazon", "com">>, <<"linkedin", "com">>,
    <<"facebook", "com">>, <<"twitter", "com">> }

LabelEndsWith(label, s) == label = s \/ <<label, s>> \in { <<"notwikipedia", "wikipedia">> }

LabelStartsWith(label, s) == label = s \/ <<label, s>> \in { <<"orgx", "org">> }

\* the dotted key holds a strict domain as a substring: the domain's dot falls
\* on a dot of the key, its first label ends the label before that dot and
\* its second label begins the label behind it
ContainsStrictDomain(key) ==
  \E d \in StrictDomainLabels : \E j \in 1..(Len(key) - 1) :
    LabelEndsWith(key[j], d[1]) /\ LabelStartsWith(key[j + 1], d[2])

\* C14: getClusterSpecificDelay(key) returns the larger delay (5000 ms) if and
\* only if key contains, as a substring, at least one entry of the
\* strict-domain list, and the baseline (2000 ms) otherwise, whatever the rest
\* of the state is.
C14_DelayValue ==
  delay.called =>
    /\ delay.ms \in {2000, 5000}
    /\ delay.ms = 5000 <=> ContainsStrictDomain(delay.key)
    /\ delay.ms = getClusterSpecificDelay(delay.key)

\* C14 witness: a key that holds a strict domain across its label boundaries
\* only ("notwikipedia.orgx") got the larger delay
C14_Witness ==
  /\ delay.called
  /\ delay.key = <<"notwikipedia", "orgx">>
  /\ delay.ms = 5000

\* the CrawlResult of a fetch none of whose own operations failed
CleanResult(url, clusterName) ==
  [ url |-> url, title |-> "page-title", content |-> "page-text", html |-> "page-html",
    markdown |-> [kind |-> IF apiKey THEN "formatted" ELSE "fallback",
                  title |-> "page-title", content |-> "page-text"],
    cluster |-> clusterName ]

\* C15: making any stage of one URL's fetch fail changes neither the presence
\* nor the field values of the CrawlResults of the other URLs of the same
\* batch, and does not prevent the batch from completing: a fetch's outcome
\* is fixed by its own URL and its own failures, and a joined batch has
\* delivered every result its fetches gave.
C15_BatchIsolation ==
  \A c \in 1..Len(tasks) :
    LET t == tasks[c]
    IN \A k \in 1..Len(t.batch) :
         LET f == t.batch[k]
         IN f.st = "settled" =>
              /\ f.failed = {} => f.result = <<CleanResult(f.url, t.clusterName)>>
              /\ \A j \in 1..Len(t.batch) :
                   ( /\ t.batch[j].st = "settled"
                     /\ t.batch[j].url = f.url
                     /\ t.batch[j].failed = f.failed ) => t.batch[j].result = f.result
              /\ (t.pc # "batch" /\ f.result # <<>>) =>
                   \E n \in 1..Len(t.clusterResults) : t.clusterResults[n] = f.result[1]

\* C15 witness: a batch was joined whose first fetch failed and returned null
\* and whose second fetch, with no failure of its own, delivered its result
C15_Witness ==
  \E c \in 1..Len(tasks) :
    LET t == tasks[c]
    IN /\ t.pc # "batch"
       /\ Len(t.batch) = 2
       /\ t.batch[1].failed # {} /\ t.batch[1].result = <<>>
       /\ t.batch[2].failed = {}
       /\ t.clusterResults = <<CleanResult(t.batch[2].url, t.clusterName)>>

\* the first d entries of the ranked input, all of them when it is shorter;
\* a depth that is not given (options.depth = 0 here) stands for the default
FirstEntries(d) ==
  SubSeq(searchResults, 1,
         Min(Len(searchResults), IF d < 0 THEN 0 ELSE IF d = 0 THEN DefaultDepth ELSE d))

\* C16: for every integer value of options.depth, crawlWebsites partitions
\* and fetches exactly the first depth entries of the ranked input (all of
\* them when the input is shorter); no URL outside them is ever fetched.
C16_DepthTruncation ==
  Partitioned =>
    /\ \A u \in CrawlUrls :
         Count(FlatUrls(ObjectEntries(clusters.obj)), u) = Count(FirstEntries(options.depth), u)
    /\ \A c \in 1..Len(tasks) : \A k \in 1..Len(tasks[c].batch) :
         Count(FirstEntries(options.depth), tasks[c].batch[k].url) > 0

\* the partition the supplied cluster options ask for
SuppliedPartition ==
  groupUrlsByClusters(limitedResults,
    [enabled |-> TRUE, maxClusters |-> options.maxClusters,
     clusterBy |-> options.clusterBy, customClusterFn |-> "undefined"])

\* C17: the clusterBy and maxClusters values supplied to the crawl determine
\* the partition used by the run: with clusterBy = tld two URLs on different
\* hostnames with the same TLD are fetched in the same cluster, and with
\* maxClusters = m at most m cluster tasks (browser sessions) are started.
C17_ClusterOptionsHonoured ==
  Partitioned =>
    /\ clusters.obj = SuppliedPartition.obj
    /\ Len(tasks) <= options.maxClusters
    /\ options.clusterBy = "tld" =>
         \A c \in 1..Len(tasks) :
           ( \E n \in 1..Len(tasks[c].clusterUrls) : tasks[c].clusterUrls[n] = "http://a.com/" )
             => \A d \in 1..Len(tasks) :
                  ( \E n \in 1..Len(tasks[d].clusterUrls) :
                      tasks[d].clusterUrls[n] = "http://b.com/" ) => d = c

(***************************************************************************)
(* Properties of the page fetcher                                          *)
(***************************************************************************)
\* crawlWebsite has returned a CrawlResult
FetchReturnedResult == fetch.pc = "done" /\ fetch.outcome = "result"

\* C18: whenever the formatter is unavailable (no API key) or its call fails
\* or returns an unexpected response, the CrawlResult's markdown equals
\* exactly "# " + title + "\n\n" + the full untruncated content +
\* "\n\n[Source](" + url + ")", and no formatter request is sent when the API
\* key is absent.
C18_FallbackMarkdown ==
  /\ (fetch.pc # "none" /\ ~apiKey) => fetch.requests = <<>>
  /\ (FetchReturnedResult /\ (~apiKey \/ "formatter" \in fetch.failed)) =>
       LET r == fetch.result[1]
       IN /\ r.markdown = <<"# ", r.title, "\n\n", r.content, "\n\n[Source](", r.url, ")">>
          /\ r.url = fetch.url
          /\ r.content = fetch.content
          /\ ~r.content.ellipsis

\* C18 witness: the formatter was sent the text cut to maxContentLength,
\* its call failed, and the fallback holds the whole text
C18_Witness ==
  /\ FetchReturnedResult
  /\ apiKey
  /\ "formatter" \in fetch.failed
  /\ Len(fetch.requests) = 1
  /\ fetch.requests[1].content.ellipsis
  /\ fetch.result[1].content.len = MaxContentLength + 1
  /\ fetch.result[1].markdown[4].len = MaxContentLength + 1

\* the operations whose failure crawlWebsite is to survive
SoftStages ==
  {"goto", "waitForSelector", "title", "evaluate", "content", "screenshot", "formatter"}

\* C19: for every URL (including one of the invalid-urls cluster) and every
\* combination of failures of navigation, the body-selector wait, title
\* retrieval, text extraction, HTML capture, screenshot and markdown
\* formatting, crawlWebsite continues through all remaining stages and
\* returns a non-null CrawlResult.
C19_SoftFailuresKeepPage ==
  (fetch.pc = "done" /\ fetch.failed \subseteq SoftStages) =>
    /\ fetch.outcome = "result"
    /\ fetch.result # <<>>

\* C20: crawlWebsite never propagates an exception to its caller; for every
\* failure of any browser, page or formatter operation inside it, the
\* invocation ends in its final state by returning a value (given that each
\* external call returns or throws).
C20_FetchBoundary ==
  /\ [](fetch.outcome # "thrown")
  /\ [](fetch.pc = "done" =>
          \/ fetch.outcome = "null" /\ fetch.result = <<>>
          \/ fetch.outcome = "result" /\ fetch.result # <<>>)
  /\ <>(fetch.pc = "done")

\* C20 witness: page.setUserAgent threw on the page the fetch had opened and
\* crawlWebsite returned null
C20_Witness ==
  /\ fetch.pc = "done"
  /\ fetch.outcome = "null"
  /\ fetch.failed = {"setUserAgent"}
  /\ fetch.page = "open"

(***************************************************************************)
(* Properties of the scheduler across clusters                             *)
(***************************************************************************)
RECURSIVE SumOver(_, _)
\* the sum of Op(t) over the tasks of a sequence
SumOver(Op(_), ts) ==
  IF ts = <<>> THEN 0 ELSE Op(Head(ts)) + SumOver(Op, Tail(ts))

\* the crawlWebsite invocations in flight in the whole run
TotalInFlight == SumOver(InFlight, tasks)

\* C21: the concurrency ceiling is per cluster only; with k clusters no state
\* has more than c*k page fetches in flight, c being the configured
\* concurrency (options.concurrency, default 3).
C21_NoGlobalCap == TotalInFlight <= concurrencyPerCluster * Len(tasks)

\* the URLs of the cluster at position c of the partition computed at run start
PartitionUrls(c) == ObjectEntries(clusters.obj)[c].urls

\* C22: a run launches exactly one browser session per cluster, and every
\* crawlWebsite invocation uses the session launched by the task of the
\* cluster its URL belongs to; no session is ever used by a fetch of another
\* cluster.
C22_SessionExclusive ==
  \A c \in 1..Len(tasks) :
    /\ tasks[c].browser = "none" <=> tasks[c].session = 0
    /\ tasks[c].browser # "none" =>
         \A d \in 1..Len(tasks) :
           (d # c /\ tasks[d].browser # "none") => tasks[d].session # tasks[c].session
    /\ \A k \in 1..Len(tasks[c].batch) :
         /\ tasks[c].batch[k].session # 0
         /\ tasks[c].batch[k].session = tasks[c].session
         /\ Count(PartitionUrls(c), tasks[c].batch[k].url) > 0
         /\ \A d \in 1..Len(tasks) :
              d # c => tasks[c].batch[k].session # tasks[d].session

\* C22 witness: two clusters are fetching at the same time, each on the
\* session its own task launched
C22_Witness ==
  /\ Len(tasks) = 2
  /\ \A c \in 1..Len(tasks) : tasks[c].browser = "open" /\ InFlight(tasks[c]) > 0
  /\ tasks[1].batch[1].session # tasks[2].batch[1].session

\* C23: every CrawlResult in the list returned by crawlWithClustering carries
\* a cluster field equal to the key of the cluster that contains its URL in
\* the partition computed at run start (the sentinel key for URLs placed in
\* invalid-urls or merged-small-clusters).
C23_ClusterTagging ==
  /\ \A c \in 1..Len(tasks) : \A n \in 1..Len(tasks[c].clusterResults) :
       /\ tasks[c].clusterResults[n].cluster = ObjectEntries(clusters.obj)[c].key
       /\ Count(PartitionUrls(c), tasks[c].clusterResults[n].url) > 0
  /\ mainPc = "returned" =>
       \A n \in 1..Len(returned) :
         \E c \in 1..Len(clusters.obj) :
           /\ clusters.obj[c].key = returned[n].cluster
           /\ Count(clusters.obj[c].urls, returned[n].url) > 0

\* C23 witness: the returned list holds a result of a kept cluster tagged
\* with its hostname and the results of two merged clusters, one of them the
\* unparsable URL, tagged "merged-small-clusters"
C23_Witness ==
  /\ mainPc = "returned"
  /\ Len(returned) = 3
  /\ returned[1].cluster = <<"a", "com">>
  /\ returned[2].cluster = MergedKey /\ returned[2].url = "http://b.com/"
  /\ returned[3].cluster = MergedKey /\ returned[3].url = "not a url"

(***************************************************************************)
(* Properties of the partitioner: keys and merging                         *)
(***************************************************************************)
\* the key the URL is to get under the given mode
ExpectedKey(url, config) ==
  IF ~UrlParses(url) THEN <<"invalid-urls">>
  ELSE LET host == Hostname(url)
       IN CASE config.clusterBy = "domain" -> host
            [] config.clusterBy = "tld" ->
                 IF Len(host) >= 2 THEN SubSeq(host, Len(host), Len(host)) ELSE host
            [] config.clusterBy = "custom" -> CustomClusterFn(config.customClusterFn, url)

\* the number of different keys the URLs of the input are to get
ExpectedKeyCount ==
  Cardinality({ExpectedKey(searchResults[n], clusterConfig) : n \in 1..Len(searchResults)})

\* C24: groupUrlsByClusters assigns each URL the key: its hostname when
\* clusterBy=domain; the last dot-delimited segment of its hostname, or the
\* whole hostname when it has no dot, when clusterBy=tld; the value of
\* customClusterFn(url) when clusterBy=custom; and "invalid-urls" when the
\* URL cannot be parsed; the call never raises.  (Stated for the calls that
\* need no merging and, for clusterBy=custom, supply the function.)
C24_KeyDerivation ==
  ( /\ clusters.called
    /\ clusterConfig.clusterBy = "custom" => clusterConfig.customClusterFn # "undefined"
    /\ ExpectedKeyCount <= clusterConfig.maxClusters )
  => /\ ~clusters.threw
     /\ \A n \in 1..Len(searchResults) :
          \E e \in 1..Len(clusters.obj) :
            /\ clusters.obj[e].key = ExpectedKey(searchResults[n], clusterConfig)
            /\ Count(clusters.obj[e].urls, searchResults[n]) > 0

\* groupUrlsByClusters returned after merging
MergeRan == Partitioned /\ Len(RawOfInput.obj) > clusterConfig.maxClusters

\* the raw clusters, which RawOfInput lists in first-seen order, by descending
\* member count with ties kept in first-seen order
SortedFirstSeen == SortBySizeDesc(<<>>, RawOfInput.obj)

\* the cluster with the given key in the returned object has these URLs
Returns(key, urls) ==
  \E e \in 1..Len(clusters.obj) : clusters.obj[e].key = key /\ clusters.obj[e].urls = urls

\* C25: when merging runs (maxClusters >= 1), the clusters are ordered by
\* descending member count with ties kept in first-seen order, the first
\* maxClusters-1 of them are returned with their key and URL list unchanged,
\* and the URL lists of all the others are concatenated in that sorted order
\* into "merged-small-clusters".
C25_OverflowMergeRule ==
  (MergeRan /\ clusterConfig.maxClusters >= 1) =>
    LET m == clusterConfig.maxClusters
        sorted == SortedFirstSeen
    IN /\ \A j \in 1..(m - 1) : Returns(sorted[j].key, sorted[j].urls)
       /\ Returns(MergedKey, FlatUrls(SubSeq(sorted, m, Len(sorted))))

\* the URLs of the raw clusters with the given indices, as a count per URL
CountIn(indices, u) ==
  Count(FlatUrls(SelectSeq([n \in 1..Len(RawOfInput.obj) |->
                              IF n \in indices THEN RawOfInput.obj[n]
                              ELSE [key |-> <<>>, urls |-> <<>>]],
                           LAMBDA e : TRUE)), u)

\* the sets of `size` raw clusters none of which is larger than a raw cluster
\* outside the set
SmallestSets(size) ==
  { S \in SUBSET (1..Len(RawOfInput.obj)) :
      /\ Cardinality(S) = size
      /\ \A n \in S : \A o \in (1..Len(RawOfInput.obj)) \ S :
           Len(RawOfInput.obj[n].urls) <= Len(RawOfInput.obj[o].urls) }

\* C26: whenever the raw cluster count k exceeds maxClusters = m (m >= 1),
\* groupUrlsByClusters returns exactly m clusters, one of which is
\* "merged-small-clusters" and holds the URLs of exactly the k-m+1 smallest
\* original clusters.
C26_ExactCountAfterMerge ==
  (MergeRan /\ clusterConfig.maxClusters >= 1) =>
    LET m == clusterConfig.maxClusters
        k == Len(RawOfInput.obj)
    IN /\ Len(clusters.obj) = m
       /\ HasOwn(clusters.obj, MergedKey)
       /\ \E S \in SmallestSets(k - m + 1) : \A u \in Urls :
            Count(clusters.obj[IndexOfKey(clusters.obj, MergedKey)].urls, u) = CountIn(S, u)

\* the URL list the merging steps store under "merged-small-clusters"
MergedUrlsOfInput ==
  FlatUrls(JsSliceFrom(SortBySizeDesc(<<>>, ObjectEntries(RawOfInput.obj)),
                       clusterConfig.maxClusters - 1))

\* C27: groupUrlsByClusters merges if and only if the raw cluster count
\* exceeds maxClusters: when the raw count is at most maxClusters the raw
\* clusters are returned unchanged (same keys, same URL lists, no
\* "merged-small-clusters" bucket added); when it exceeds maxClusters the
\* returned object has the "merged-small-clusters" bucket the merging wrote.
C27_MergeIffNeeded ==
  Partitioned =>
    LET m == clusterConfig.maxClusters
        k == Len(RawOfInput.obj)
    IN /\ k <= m => clusters.obj = RawOfInput.obj
       /\ (k > m /\ k >= 1) =>
            /\ HasOwn(clusters.obj, MergedKey)
            /\ clusters.obj[IndexOfKey(clusters.obj, MergedKey)].urls = MergedUrlsOfInput

\* C27 witness: four URLs on two hostnames, clusterBy domain, maxClusters 3,
\* returned as the two raw clusters
C27_Witness ==
  /\ Partitioned
  /\ clusterConfig.clusterBy = "domain"
  /\ clusterConfig.maxClusters = 3
  /\ Len(searchResults) = 4
  /\ Len(RawOfInput.obj) = 2
  /\ Len(clusters.obj) = 2
  /\ ~HasOwn(clusters.obj, MergedKey)

(***************************************************************************)
(* Properties of crawlWebsite: the frame of a stage failure                *)
(***************************************************************************)
\* C28: in crawlWebsite a title failure sets title to the URL's hostname, an
\* extraction failure sets content to the fixed placeholder string, an
\* HTML-capture failure sets html to the placeholder document, and a
\* screenshot failure changes no field: each of title, content and html of
\* the returned result depends on the failure of its own stage only; and a
\* screenshot is attempted only when verbose is set.
C28_StageFailureFrame ==
  /\ "title" \in fetch.failed =>
       /\ fetch.outcome # "null"
       /\ fetch.title = KeyString(Hostname(fetch.url))
  /\ "evaluate" \in fetch.failed => fetch.content = ExtractFailedText(fetch.url)
  /\ "content" \in fetch.failed => fetch.html = "placeholder-html"
  /\ fetch.outcome = "result" =>
       /\ "title" \notin fetch.failed => fetch.result[1].title = "page-title"
       /\ "title" \in fetch.failed =>
            fetch.result[1].title = KeyString(Hostname(fetch.url))
       /\ "evaluate" \notin fetch.failed => fetch.result[1].content.kind = "page-text"
       /\ "evaluate" \in fetch.failed =>
            fetch.result[1].content = ExtractFailedText(fetch.url)
       /\ "content" \notin fetch.failed => fetch.result[1].html = "page-html"
       /\ "content" \in fetch.failed => fetch.result[1].html = "placeholder-html"
  /\ (fetch.pc = "screenshot" \/ "screenshot" \in fetch.failed) => options.verbose

(***************************************************************************)
(* Properties of the scheduler: termination and batch coverage             *)
(***************************************************************************)
\* C29: for every integer value of options.concurrency (zero and negative
\* values included) and every input, if every browser, timer and formatter
\* call eventually returns or throws, the batch loop of every cluster task
\* terminates and crawlWebsites eventually returns.
C29_RunTerminates ==
  /\ (mainPc = "awaiting") ~> (mainPc = "returned")
  /\ \A c \in 1..MaxClustersCap :
       (c <= Len(tasks)) ~> (c <= Len(tasks) /\ tasks[c].pc \in {"fulfilled", "rejected"})

\* the concurrency the claim ascribes to the run: unset or zero behaves as 3
EffectiveConcurrency == IF options.concurrency = 0 THEN 3 ELSE options.concurrency

\* the URLs of the fetches of a batch
BatchUrls(batch) == [k \in 1..Len(batch) |-> batch[k].url]

\* the batch loop of the task has ended (the finally block was entered)
LoopEnded(task) ==
  task.pc \in {"closing", "fulfilled", "rejected"} /\ ~LaunchFailed(task)

\* C30: for every concurrency c >= 1 (an unset or zero concurrency counting
\* as 3) and every cluster of n URLs, the batches of the cluster task are the
\* consecutive slices of size c of the cluster's URL list (the last one
\* possibly smaller), exactly ceil(n/c) of them once the loop has ended, so
\* the URLs whose fetch was started are, in order, the URLs of the cluster:
\* each is fetched exactly once.
C30_BatchCoverage ==
  EffectiveConcurrency >= 1 =>
    \A t \in 1..Len(tasks) :
      LET task == tasks[t]
          n == Len(task.clusterUrls)
          c == EffectiveConcurrency
      IN /\ task.pc \in {"batch", "sleeping"} =>
              /\ task.i % c = 0
              /\ task.i < n
              /\ BatchUrls(task.batch) = SubSeq(task.clusterUrls, task.i + 1, Min(task.i + c, n))
              /\ task.batches = (task.i \div c) + 1
              /\ task.started = SubSeq(task.clusterUrls, 1, Min(task.i + c, n))
         /\ LoopEnded(task) =>
              /\ task.batches = BatchesOf(n, c)
              /\ task.started = task.clusterUrls

\* C30 witness: a cluster of three URLs at concurrency 2 has run its two
\* batches, of two URLs and of one
C30_Witness ==
  /\ options.concurrency = 2
  /\ \E t \in 1..Len(tasks) :
       /\ Len(tasks[t].clusterUrls) = 3
       /\ LoopEnded(tasks[t])
       /\ tasks[t].batches = 2
       /\ Len(tasks[t].batch) = 1
       /\ tasks[t].started = tasks[t].clusterUrls

(***************************************************************************)
(* Properties of the scheduler: order of the returned list                 *)
(***************************************************************************)
\* crawlWithClustering has returned its list (no cluster task rejected)
ListReturned ==
  mainPc = "returned" /\ Partitioned /\ \A c \in 1..Len(tasks) : tasks[c].pc = "fulfilled"

\* the position of a cluster key among the keys of the cluster map
KeyPosition(key) ==
  CHOOSE c \in 1..Len(tasks) : ObjectEntries(clusters.obj)[c].key = key

\* C31: the list returned by crawlWithClustering does not depend on the
\* interleaving of cluster tasks and fetch completions: it is the per-cluster
\* result lists concatenated in the order of the cluster map's keys, each
\* per-cluster list following the cluster's URL list.
C31_DeterministicOrder ==
  ListReturned =>
    /\ \A c \in 1..Len(tasks) :
         /\ tasks[c].clusterName = ObjectEntries(clusters.obj)[c].key
         /\ SelectSeq(returned, LAMBDA r : r.cluster = tasks[c].clusterName)
              = tasks[c].clusterResults
         /\ IsSubseq(UrlsOf(tasks[c].clusterResults), ObjectEntries(clusters.obj)[c].urls)
    /\ \A n \in 1..Len(returned) : \A o \in 1..Len(returned) :
         n < o => KeyPosition(returned[n].cluster) <= KeyPosition(returned[o].cluster)
    /\ IsSubseq(UrlsOf(returned), FlatUrls(ObjectEntries(clusters.obj)))

\* C31 witness: two clusters gave results, the second fetch of the second
\* cluster settled before its first, and the list is in key and URL order
C31_Witness ==
  /\ ListReturned
  /\ Len(tasks) = 2
  /\ Len(tasks[2].batch) = 2
  /\ tasks[2].batch[2].rank = 1 /\ tasks[2].batch[1].rank = 2
  /\ tasks[2].batch[1].url # tasks[2].batch[2].url
  /\ Len(returned) = 3
  /\ returned[1].cluster = tasks[1].clusterName
  /\ returned[2].url = tasks[2].batch[1].url
  /\ returned[3].url = tasks[2].batch[2].url

(***************************************************************************)
(* Properties of the scheduler: throttling of strict origins               *)
(***************************************************************************)
\* the URL's hostname contains an entry of the strictDomains list
StrictOrigin(url) ==
  UrlParses(url) /\ \E domain \in StrictDomains : Includes(KeyString(Hostname(url)), domain)

\* C32: whenever a cluster task sleeps between two batches and the cluster
\* contains a URL whose hostname contains a strict-domain entry, the sleep is
\* 5000 ms, also when that URL's original cluster was merged into
\* "merged-small-clusters".
C32_StrictOriginsThrottled ==
  \A c \in 1..Len(tasks) :
    ( /\ tasks[c].pc = "sleeping"
      /\ \E n \in 1..Len(tasks[c].clusterUrls) : StrictOrigin(tasks[c].clusterUrls[n]) )
    => tasks[c].timer = 5000

(***************************************************************************)
(* Properties of generateCleanMarkdown: the formatter input                *)
(***************************************************************************)
\* C33: for every content length, the content text generateCleanMarkdown
\* places in the formatter request is at most 8000 characters long, and is
\* the whole content when the content is no longer than 8000 characters.
C33_FormatterInputCap ==
  \A n \in 1..Len(fetch.requests) :
    /\ fetch.requests[n].content.len <= 8000
    /\ fetch.content.len <= 8000 => fetch.requests[n].content = fetch.content

(***************************************************************************)
(* McpClientManager: connectToServer and disconnectAll                     *)
(***************************************************************************)
\* the server names connectMcpClients and aiEnhancedSearch connect to, in
\* the order of their connectToServer calls
ServerNames == <<"crawler", "browser">>

\* the callers of connectMcpClients that may be in progress at once, and the
\* calls of disconnectAll and of disconnect(name) made in a run
MaxConnectCalls == 2
MaxDisconnectAlls == 2
MaxDisconnects == 1

\* this.clients, a Map in insertion order: entries [name, proc], proc being
\* the index in manager.procs of the entry's server process
HasClient(m, name) == \E n \in 1..Len(m.clients) : m.clients[n].name = name

\* this.clients.set(name, {client, process}): an existing key keeps its place
SetClient(m, name, proc) ==
  IF HasClient(m, name)
  THEN [m EXCEPT !.clients[CHOOSE n \in 1..Len(m.clients) : m.clients[n].name = name].proc = proc]
  ELSE [m EXCEPT !.clients = Append(@, [name |-> name, proc |-> proc])]

\* connectToServer(name, ...) called by caller c, up to its await or its
\* return: a registered name returns its client at once; for another name
\* the server process is spawned and client.connect(transport) is awaited.
\* rest are the names connectMcpClients connects to afterwards.
connectToServer(m, c, name, rest) ==
  IF HasClient(m, name)
  THEN [m EXCEPT !.calls[c] = [pc |-> "returned", name |-> name, rest |-> rest, proc |-> 0]]
  ELSE [m EXCEPT
          !.procs = Append(@, [name |-> name, killed |-> FALSE]),
          !.calls[c] = [pc |-> "connecting", name |-> name, rest |-> rest,
                        proc |-> Len(m.procs) + 1]]

\* disconnectAll at entry k of its iteration over this.clients.entries(): it
\* destructures the entry's client and process and awaits client.disconnect(),
\* or, past the last entry, clears the map and returns
DisconnectFrom(m, k) ==
  IF k <= Len(m.clients)
  THEN [m EXCEPT !.disc.pc = "disconnecting", !.disc.k = k,
                 !.disc.proc = m.clients[k].proc]
  ELSE [m EXCEPT !.clients = <<>>, !.disc.pc = "done", !.disc.k = k, !.disc.proc = 0]

\* this.clients.delete(name); an iteration of disconnectAll in progress goes
\* on with the entries that follow the one it is at
DeleteClient(m, name) ==
  IF ~HasClient(m, name) THEN m
  ELSE LET j == CHOOSE n \in 1..Len(m.clients) : m.clients[n].name = name
       IN [m EXCEPT
             !.clients = SubSeq(@, 1, j - 1) \o SubSeq(@, j + 1, Len(@)),
             !.disc.k = IF m.disc.pc = "disconnecting" /\ j <= @ THEN @ - 1 ELSE @]

NewManager ==
  [ clients |-> <<>>, procs |-> <<>>,
    calls |-> [c \in 1..MaxConnectCalls |->
                 [pc |-> "idle", name |-> "", rest |-> <<>>, proc |-> 0]],
    disc |-> [pc |-> "idle", k |-> 0, proc |-> 0, runs |-> 0],
    one |-> [pc |-> "idle", name |-> "", proc |-> 0, runs |-> 0] ]

InitManager ==
  /\ manager = NewManager
  /\ server = NoServer
  /\ searchResults = <<>>
  /\ options = NoOptions
  /\ apiKey = FALSE
  /\ clusterConfig = [enabled |-> FALSE, maxClusters |-> 0, clusterBy |-> "domain",
                      customClusterFn |-> "undefined"]
  /\ clusters = NoClusters
  /\ mainPc = "idle"
  /\ returned = <<>>
  /\ tasks = <<>>
  /\ delay = NoDelay
  /\ fetch = NoFetch

\* a caller starts connectMcpClients: connectToServer('crawler', ...) runs
\* up to its await or its return
ConnectMcpClients(c) ==
  /\ manager.calls[c].pc = "idle"
  /\ manager' = connectToServer(manager, c, Head(ServerNames), Tail(ServerNames))
  /\ UNCHANGED <<searchResults, options, clusterConfig, clusters, mainPc, returned,
                 tasks, apiKey, delay, fetch, server>>

\* await client.connect(transport) resolves: the entry is stored under the
\* name and connectToServer returns the client
ConnectResolves(c) ==
  /\ manager.calls[c].pc = "connecting"
  /\ LET call == manager.calls[c]
         stored == SetClient(manager, call.name, call.proc)
     IN manager' = [stored EXCEPT !.calls[c].pc = "returned", !.calls[c].proc = 0]
  /\ UNCHANGED <<searchResults, options, clusterConfig, clusters, mainPc, returned,
                 tasks, apiKey, delay, fetch, server>>

\* the await of connectMcpClients on a connectToServer that returned resumes:
\* the caller goes on to its next connectToServer, or returns after the last
ConnectReturns(c) ==
  /\ manager.calls[c].pc = "returned"
  /\ LET rest == manager.calls[c].rest
     IN manager' =
          IF rest = <<>>
          THEN [manager EXCEPT !.calls[c] = [pc |-> "done", name |-> "", rest |-> <<>>,
                                             proc |-> 0]]
          ELSE connectToServer(manager, c, Head(rest), Tail(rest))
  /\ UNCHANGED <<searchResults, options, clusterConfig, clusters, mainPc, returned,
                 tasks, apiKey, delay, fetch, server>>

\* await client.connect(transport) rejects: connectToServer logs and
\* rethrows, and so does connectMcpClients
ConnectRejects(c) ==
  /\ manager.calls[c].pc = "connecting"
  /\ manager' = [manager EXCEPT !.calls[c].pc = "failed"]
  /\ UNCHANGED <<searchResults, options, clusterConfig, clusters, mainPc, returned,
                 tasks, apiKey, delay, fetch, server>>

\* disconnectAll is called
DisconnectAll ==
  /\ manager.disc.pc \in {"idle", "done"}
  /\ manager.disc.runs < MaxDisconnectAlls
  /\ manager' = DisconnectFrom([manager EXCEPT !.disc.runs = @ + 1], 1)
  /\ UNCHANGED <<searchResults, options, clusterConfig, clusters, mainPc, returned,
                 tasks, apiKey, delay, fetch, server>>

\* await client.disconnect() resolves: process.kill() on the process
\* destructured at the loop head, then the next entry
DisconnectResolves ==
  /\ manager.disc.pc = "disconnecting"
  /\ manager' = DisconnectFrom([manager EXCEPT !.procs[manager.disc.proc].killed = TRUE],
                               manager.disc.k + 1)
  /\ UNCHANGED <<searchResults, options, clusterConfig, clusters, mainPc, returned,
                 tasks, apiKey, delay, fetch, server>>

\* await client.disconnect() rejects: the catch block logs the error, and
\* the loop goes on to the next entry
DisconnectRejects ==
  /\ manager.disc.pc = "disconnecting"
  /\ manager' = DisconnectFrom(manager, manager.disc.k + 1)
  /\ UNCHANGED <<searchResults, options, clusterConfig, clusters, mainPc, returned,
                 tasks, apiKey, delay, fetch, server>>

\* disconnect(name) is called: without an entry of that name it returns,
\* else it awaits the disconnect() of the client it read from the map
Disconnect(name) ==
  /\ manager.one.pc \in {"idle", "done"}
  /\ manager.one.runs < MaxDisconnects
  /\ manager' = [manager EXCEPT !.one =
       IF HasClient(manager, name)
       THEN [pc |-> "disconnecting", name |-> name, runs |-> @.runs + 1,
             proc |-> manager.clients[CHOOSE n \in 1..Len(manager.clients) :
                                        manager.clients[n].name = name].proc]
       ELSE [pc |-> "done", name |-> name, runs |-> @.runs + 1, proc |-> 0]]
  /\ UNCHANGED <<searchResults, options, clusterConfig, clusters, mainPc, returned,
                 tasks, apiKey, delay, fetch, server>>

\* disconnect(name): await clientInfo.client.disconnect() resolves, then
\* clientInfo.process.kill() and this.clients.delete(name)
DisconnectOneResolves ==
  /\ manager.one.pc = "disconnecting"
  /\ manager' = DeleteClient([manager EXCEPT !.procs[manager.one.proc].killed = TRUE,
                                             !.one.pc = "done"],
                             manager.one.name)
  /\ UNCHANGED <<searchResults, options, clusterConfig, clusters, mainPc, returned,
                 tasks, apiKey, delay, fetch, server>>

\* disconnect(name): await clientInfo.client.disconnect() rejects; the catch
\* block logs the error
DisconnectOneRejects ==
  /\ manager.one.pc = "disconnecting"
  /\ manager' = [manager EXCEPT !.one.pc = "done"]
  /\ UNCHANGED <<searchResults, options, clusterConfig, clusters, mainPc, returned,
                 tasks, apiKey, delay, fetch, server>>

NextManager ==
  \/ \E c \in 1..MaxConnectCalls :
       \/ ConnectMcpClients(c)
       \/ ConnectResolves(c)
       \/ ConnectReturns(c)
       \/ ConnectRejects(c)
  \/ DisconnectAll
  \/ DisconnectResolves
  \/ DisconnectRejects
  \/ \E n \in 1..Len(ServerNames) : Disconnect(ServerNames[n])
  \/ DisconnectOneResolves
  \/ DisconnectOneRejects

SpecManager == InitManager /\ [][NextManager]_vars

(***************************************************************************)
(* Properties of McpClientManager                                          *)
(***************************************************************************)
\* the server process is still awaited by the connectToServer that spawned it
ConnectPending(p) ==
  \E c \in 1..MaxConnectCalls :
    manager.calls[c].pc = "connecting" /\ manager.calls[c].proc = p

\* the server processes spawned under the name and not killed
LiveProcesses(name) ==
  {p \in 1..Len(manager.procs) : manager.procs[p].name = name /\ ~manager.procs[p].killed}

\* C34: for every interleaving of connectToServer calls, at most one server
\* process per name is spawned and not killed, and every spawned process that
\* has not been killed (and whose connect has settled) is the one stored in
\* the clients map under its name.
C34_OneConnectionPerName ==
  /\ \A n \in 1..Len(ServerNames) : Cardinality(LiveProcesses(ServerNames[n])) <= 1
  /\ \A p \in 1..Len(manager.procs) :
       (~manager.procs[p].killed /\ ~ConnectPending(p)) =>
         \E n \in 1..Len(manager.clients) :
           manager.clients[n].name = manager.procs[p].name /\ manager.clients[n].proc = p

\* C35: when disconnectAll returns, the clients map is empty and the server
\* process of every entry the map held has been killed, even when
\* client.disconnect() throws for some entries.
C35_DisconnectAllReleases ==
  [][(manager.disc.pc # "done" /\ manager'.disc.pc = "done") =>
       /\ manager'.clients = <<>>
       /\ \A n \in 1..Len(manager.clients) :
            manager'.procs[manager.clients[n].proc].killed]_vars

(***************************************************************************)
(* BrowserMcpServer: the tool handlers and this.browser                    *)
(***************************************************************************)
\* the tools that work on the first page of the browser the server holds
PageTools ==
  {"navigate_to", "click_element", "type_text", "take_screenshot", "extract_content"}

BrowserTools == {"launch_browser", "close_browser", "visit_and_extract"} \cup PageTools

\* the names a CallToolRequest can carry: a tool of the server, or another
ToolNames == BrowserTools \cup {"unknown_tool"}

\* the tool calls made to the server in a run, the browsers puppeteer can
\* launch in it and the SIGINT signals the process receives
MaxToolCalls == 3
MaxBrowsers == 2
MaxSigints == 1

\* the most tool calls the runs let the server handle at once
MaxCallSlots == 2

\* the page operations a handler awaits one after the other once it has its
\* browser; handleVisitAndExtract awaits page.close() in a finally block
HandlerOps(tool) ==
  CASE tool = "launch_browser" -> <<"newPage", "goto">>
    [] tool = "navigate_to" -> <<"pages", "goto">>
    [] tool = "click_element" -> <<"pages", "waitForSelector", "click">>
    [] tool = "type_text" -> <<"pages", "waitForSelector", "evaluate", "type">>
    [] tool = "take_screenshot" -> <<"pages", "screenshot">>
    [] tool = "extract_content" -> <<"pages", "waitForSelector", "evaluate">>
    [] tool = "visit_and_extract" ->
         <<"newPage", "goto", "waitForSelector", "evaluate", "title", "close">>
    [] OTHER -> <<>>

\* the operations of handleVisitAndExtract inside the try whose finally
\* block closes the page
InPageTry(tool, op) ==
  tool = "visit_and_extract" /\ HandlerOps(tool)[op] \notin {"newPage", "close"}

\* A slot holds one tool call being handled.  args tells whether the request
\* carried an arguments object, ref is the browser the awaited operation
\* works on, op the position in HandlerOps of the page operation awaited,
\* threw whether an operation threw inside the try of handleVisitAndExtract,
\* found whether a page tool found this.browser set, seen and before are
\* server.launched and this.browser when the call started, launches the
\* browsers launched until then.
IdleCall ==
  [tool |-> "", args |-> FALSE, pc |-> "idle", ref |-> 0, op |-> 0, threw |-> FALSE,
   found |-> FALSE, seen |-> FALSE, before |-> 0, launches |-> 0, outcome |-> ""]

\* The server after construction, handling at most `slots` calls at once:
\* browser is this.browser (0 for null), browsers the state of every browser
\* launched, launched whether a browser was launched since the last close,
\* sigint the run of the SIGINT handler, exited whether the process ended
NewServer(slots) ==
  [ browser |-> 0, browsers |-> <<>>, calls |-> [c \in 1..slots |-> IdleCall],
    started |-> 0, launched |-> FALSE,
    sigint |-> [pc |-> "idle", ref |-> 0, runs |-> 0], exited |-> FALSE ]

\* the handler returns {content} (outcome "ok") or {content, isError: true}
Responded(call, outcome) ==
  [call EXCEPT !.pc = "done", !.outcome = outcome, !.op = 0, !.threw = FALSE]

\* the handler awaits its first page operation on browser ref
StartPage(call, ref) == [call EXCEPT !.pc = "page", !.ref = ref, !.op = 1]

\* The request handler up to its first await.  An unknown name throws
\* McpError, and every handler but handleCloseBrowser destructures its
\* arguments before its try block, which throws a TypeError when the request
\* has none: the catch of the request handler answers both with isError.
HandlerStart(srv, tool, args) ==
  LET call == [IdleCall EXCEPT !.tool = tool, !.args = args, !.seen = srv.launched,
                               !.before = srv.browser, !.launches = Len(srv.browsers)]
  IN CASE tool \notin BrowserTools -> Responded(call, "isError")
       [] tool \in BrowserTools /\ tool # "close_browser" /\ ~args ->
            Responded(call, "isError")
       [] tool = "launch_browser" ->
            IF srv.browser # 0 THEN [call EXCEPT !.pc = "closing", !.ref = srv.browser]
            ELSE [call EXCEPT !.pc = "launching"]
       [] tool = "close_browser" ->
            IF srv.browser # 0 THEN [call EXCEPT !.pc = "closing", !.ref = srv.browser]
            ELSE Responded(call, "ok")
       [] tool = "visit_and_extract" ->
            IF srv.browser = 0 THEN [call EXCEPT !.pc = "launching"]
            ELSE [call EXCEPT !.pc = "initialised"]
       [] tool \in PageTools ->
            IF srv.browser = 0 THEN Responded(call, "isError")
            ELSE StartPage([call EXCEPT !.found = TRUE], srv.browser)

\* the variables of the runs of a BrowserMcpServer other than server
InitServerRest ==
  /\ manager = NoManager
  /\ searchResults = <<>>
  /\ options = NoOptions
  /\ apiKey = FALSE
  /\ clusterConfig = [enabled |-> FALSE, maxClusters |-> 0, clusterBy |-> "domain",
                      customClusterFn |-> "undefined"]
  /\ clusters = NoClusters
  /\ mainPc = "idle"
  /\ returned = <<>>
  /\ tasks = <<>>
  /\ delay = NoDelay
  /\ fetch = NoFetch

\* tool calls handled concurrently: a request is dispatched to its handler
\* while the handler of an earlier request is still awaiting
InitServer == server = NewServer(MaxCallSlots) /\ InitServerRest

\* tool calls made one after the other: each is sent after the response to
\* the one before
InitProtocol == server = NewServer(1) /\ InitServerRest

\* slot c exists and the server process runs
Running(c) == c <= Len(server.calls) /\ ~server.exited

\* a CallToolRequest arrives and its handler runs up to its first await
CallTool(c, tool, args) ==
  /\ Running(c)
  /\ server.calls[c].pc = "idle"
  /\ server.started < MaxToolCalls
  /\ server' = [server EXCEPT !.calls[c] = HandlerStart(server, tool, args),
                              !.started = @ + 1]
  /\ UNCHANGED <<searchResults, options, clusterConfig, clusters, mainPc, returned,
                 tasks, apiKey, delay, fetch, manager>>

\* closeBrowser: await this.browser.close() resolves, this.browser = null;
\* launch_browser goes on to puppeteer.launch, close_browser returns
CloseResolves(c) ==
  /\ Running(c)
  /\ server.calls[c].pc = "closing"
  /\ server' = [server EXCEPT
       !.browsers[server.calls[c].ref] = "closed",
       !.browser = 0,
       !.launched = FALSE,
       !.calls[c] = IF @.tool = "launch_browser"
                    THEN [@ EXCEPT !.pc = "launching", !.ref = 0]
                    ELSE Responded(@, "ok")]
  /\ UNCHANGED <<searchResults, options, clusterConfig, clusters, mainPc, returned,
                 tasks, apiKey, delay, fetch, manager>>

\* closeBrowser: await this.browser.close() rejects before this.browser is
\* reset; the catch block of the handler returns an isError result
CloseRejects(c) ==
  /\ Running(c)
  /\ server.calls[c].pc = "closing"
  /\ server' = [server EXCEPT
       !.launched = IF server.calls[c].tool = "close_browser" THEN FALSE ELSE @,
       !.calls[c] = Responded(@, "isError")]
  /\ UNCHANGED <<searchResults, options, clusterConfig, clusters, mainPc, returned,
                 tasks, apiKey, delay, fetch, manager>>

\* this.browser = await puppeteer.launch(...) resolves: handleLaunchBrowser
\* goes on to open a page on this.browser, initBrowser returns this.browser
LaunchResolves(c) ==
  /\ Running(c)
  /\ server.calls[c].pc = "launching"
  /\ Len(server.browsers) < MaxBrowsers
  /\ server' = [server EXCEPT
       !.browsers = Append(@, "open"),
       !.browser = Len(server.browsers) + 1,
       !.launched = TRUE,
       !.calls[c] = IF @.tool = "visit_and_extract"
                    THEN [@ EXCEPT !.pc = "initialised"]
                    ELSE StartPage(@, Len(server.browsers) + 1)]
  /\ UNCHANGED <<searchResults, options, clusterConfig, clusters, mainPc, returned,
                 tasks, apiKey, delay, fetch, manager>>

\* handleVisitAndExtract resumes from await this.initBrowser() and evaluates
\* this.browser.newPage(): it reads this.browser again, and with null there
\* the TypeError is caught by the handler, which returns an isError result
InitBrowserReturns(c) ==
  /\ Running(c)
  /\ server.calls[c].pc = "initialised"
  /\ server' = [server EXCEPT !.calls[c] =
       IF server.browser = 0 THEN Responded(@, "isError")
       ELSE StartPage(@, server.browser)]
  /\ UNCHANGED <<searchResults, options, clusterConfig, clusters, mainPc, returned,
                 tasks, apiKey, delay, fetch, manager>>

\* puppeteer.launch rejects: the handler's catch returns an isError result
LaunchRejects(c) ==
  /\ Running(c)
  /\ server.calls[c].pc = "launching"
  /\ server' = [server EXCEPT !.calls[c] = Responded(@, "isError")]
  /\ UNCHANGED <<searchResults, options, clusterConfig, clusters, mainPc, returned,
                 tasks, apiKey, delay, fetch, manager>>

\* the page operation the handler awaits resolves: the handler awaits its
\* next operation, or returns after the last one (an isError result when an
\* operation threw before the finally block of handleVisitAndExtract)
PageOpResolves(c) ==
  /\ Running(c)
  /\ server.calls[c].pc = "page"
  /\ LET call == server.calls[c]
     IN server' = [server EXCEPT !.calls[c] =
          IF call.op < Len(HandlerOps(call.tool)) THEN [call EXCEPT !.op = call.op + 1]
          ELSE Responded(call, IF call.threw THEN "isError" ELSE "ok")]
  /\ UNCHANGED <<searchResults, options, clusterConfig, clusters, mainPc, returned,
                 tasks, apiKey, delay, fetch, manager>>

\* the page operation the handler awaits rejects: the catch returns an
\* isError result, in handleVisitAndExtract after the finally block has
\* awaited page.close()
PageOpRejects(c) ==
  /\ Running(c)
  /\ server.calls[c].pc = "page"
  /\ LET call == server.calls[c]
     IN server' = [server EXCEPT !.calls[c] =
          IF InPageTry(call.tool, call.op)
          THEN [call EXCEPT !.op = Len(HandlerOps(call.tool)), !.threw = TRUE]
          ELSE Responded(call, "isError")]
  /\ UNCHANGED <<searchResults, options, clusterConfig, clusters, mainPc, returned,
                 tasks, apiKey, delay, fetch, manager>>

\* the response is sent; the slot can take the next request
Respond(c) ==
  /\ Running(c)
  /\ server.calls[c].pc = "done"
  /\ server' = [server EXCEPT !.calls[c] = IdleCall]
  /\ UNCHANGED <<searchResults, options, clusterConfig, clusters, mainPc, returned,
                 tasks, apiKey, delay, fetch, manager>>

\* the process receives SIGINT: the handler registered in the constructor
\* runs closeBrowser up to its await, or through it when this.browser is null
Sigint ==
  /\ ~server.exited
  /\ server.sigint.pc \in {"idle", "failed"}
  /\ server.sigint.runs < MaxSigints
  /\ server' = [server EXCEPT !.sigint =
       IF server.browser # 0
       THEN [pc |-> "closing", ref |-> server.browser, runs |-> @.runs + 1]
       ELSE [pc |-> "closed", ref |-> 0, runs |-> @.runs + 1]]
  /\ UNCHANGED <<searchResults, options, clusterConfig, clusters, mainPc, returned,
                 tasks, apiKey, delay, fetch, manager>>

\* SIGINT handler, closeBrowser: await this.browser.close() resolves,
\* this.browser = null
SigintCloseResolves ==
  /\ ~server.exited
  /\ server.sigint.pc = "closing"
  /\ server' = [server EXCEPT
       !.browsers[server.sigint.ref] = "closed",
       !.browser = 0,
       !.sigint.pc = "closed", !.sigint.ref = 0]
  /\ UNCHANGED <<searchResults, options, clusterConfig, clusters, mainPc, returned,
                 tasks, apiKey, delay, fetch, manager>>

\* The promise of the SIGINT handler rejects and nothing handles it: the
\* process ends or goes on, as the Node.js in use treats unhandled rejections.
SigintFails(srv, ends) == [srv EXCEPT !.sigint.pc = "failed", !.sigint.ref = 0,
                                     !.exited = ends]

\* SIGINT handler, closeBrowser: await this.browser.close() rejects before
\* this.browser is reset
SigintCloseRejects ==
  /\ ~server.exited
  /\ server.sigint.pc = "closing"
  /\ \E ends \in BOOLEAN : server' = SigintFails(server, ends)
  /\ UNCHANGED <<searchResults, options, clusterConfig, clusters, mainPc, returned,
                 tasks, apiKey, delay, fetch, manager>>

\* SIGINT handler: await this.closeBrowser() resumes, this.server.close() is
\* awaited
SigintCloseServer ==
  /\ ~server.exited
  /\ server.sigint.pc = "closed"
  /\ server' = [server EXCEPT !.sigint.pc = "closingServer"]
  /\ UNCHANGED <<searchResults, options, clusterConfig, clusters, mainPc, returned,
                 tasks, apiKey, delay, fetch, manager>>

\* SIGINT handler: await this.server.close() resolves, process.exit(0)
SigintExits ==
  /\ ~server.exited
  /\ server.sigint.pc = "closingServer"
  /\ server' = [server EXCEPT !.sigint.pc = "exited", !.exited = TRUE]
  /\ UNCHANGED <<searchResults, options, clusterConfig, clusters, mainPc, returned,
                 tasks, apiKey, delay, fetch, manager>>

\* SIGINT handler: await this.server.close() rejects
SigintCloseServerRejects ==
  /\ ~server.exited
  /\ server.sigint.pc = "closingServer"
  /\ \E ends \in BOOLEAN : server' = SigintFails(server, ends)
  /\ UNCHANGED <<searchResults, options, clusterConfig, clusters, mainPc, returned,
                 tasks, apiKey, delay, fetch, manager>>

NextServer ==
  \/ \E c \in 1..MaxCallSlots :
       \/ \E tool \in ToolNames : \E args \in BOOLEAN : CallTool(c, tool, args)
       \/ CloseResolves(c)
       \/ CloseRejects(c)
       \/ LaunchResolves(c)
       \/ LaunchRejects(c)
       \/ InitBrowserReturns(c)
       \/ PageOpResolves(c)
       \/ PageOpRejects(c)
       \/ Respond(c)
  \/ Sigint
  \/ SigintCloseResolves
  \/ SigintCloseRejects
  \/ SigintCloseServer
  \/ SigintExits
  \/ SigintCloseServerRejects

SpecServer == InitServer /\ [][NextServer]_vars

SpecProtocol == InitProtocol /\ [][NextServer]_vars

(***************************************************************************)
(* Properties of BrowserMcpServer                                          *)
(***************************************************************************)
\* the process has received no SIGINT: the run consists of tool calls only
ToolCallsOnly == server.sigint.runs = 0

\* C36: for every interleaving of launch_browser, visit_and_extract and
\* close_browser tool calls (no SIGINT received), every browser the server
\* has launched and not yet closed is the one referenced by this.browser, so
\* at most one live browser exists and none is leaked.
C36_SingleOwnedBrowser ==
  ToolCallsOnly =>
    \A b \in 1..Len(server.browsers) :
      server.browsers[b] = "open" => server.browser = b

\* C37: in every sequence of tool calls (no SIGINT received), a page tool
\* (called with its arguments) finds a browser exactly when one has been
\* launched since the last close; when it finds none it returns an isError
\* result; it launches no browser and leaves this.browser as it was; and
\* after close_browser the server holds no browser.
C37_BrowserToolProtocol ==
  ToolCallsOnly =>
  \A c \in 1..Len(server.calls) :
    LET call == server.calls[c]
    IN /\ (call.tool \in PageTools /\ call.pc # "idle") =>
            /\ call.args => call.found = call.seen
            /\ ~call.found => (call.pc = "done" /\ call.outcome = "isError")
            /\ server.browser = call.before
            /\ Len(server.browsers) = call.launches
       /\ call.pc = "done" => call.outcome \in {"ok", "isError"}
       /\ (call.tool = "close_browser" /\ call.pc = "done") => server.browser = 0

====
